---- MODULE Spec2Model ----
(***************************************************************************)
(* Model of the email triage core of brianroberg/automation-platform:      *)
(*   src/src/workflows/deterministic_rules.py  (LabelDecisions, the        *)
(*       condition evaluator, DeterministicRuleEngine)                     *)
(*   src/src/workflows/email_triage.py         (EmailTriageWorkflow)       *)
(*                                                                         *)
(* Python values whose type the code inspects at run time (conditions,     *)
(* leaf specs) are tagged records [py |-> <type>, v |-> <value>].  Text is *)
(* a sequence of one-character strings so that lower(), "in", startswith   *)
(* and split("@") are computed, not assumed.  An operator that models a    *)
(* Python function which can raise returns a record with a `raised` field. *)
(***************************************************************************)
EXTENDS Integers, Sequences, FiniteSets, TLC

VARIABLES
    rules,          \* DeterministicRuleEngine.rules: the parsed rule list
    inbox,          \* what the mail provider holds for get_inbox_candidates
    pc,             \* position of EmailTriageWorkflow.run
    dry_run,        \* run(dry_run=...)
    emails,         \* the batch fetched by run
    idx,            \* 1-based index of the message the loop of run is at
    ridx,           \* 1-based index of the rule DeterministicRuleEngine.run is at
    aidx,           \* 1-based index into final_labels inside _apply_labels
    decisions,      \* the LabelDecisions object of the current message
    terminated,     \* result of rules_engine.run for the current message
    labels,         \* decisions.final_labels(), as handed to _apply_labels
    stats,          \* the stats dictionary of run
    log,            \* history: collaborator calls and rule evaluations, in order
    outcomes,       \* history: per message, what _process_email returned or "failed"
    calls,          \* history: the decide calls made on a stand-alone ledger
    first_run       \* history: the result of the first of two paired runs

vars == <<rules, inbox, pc, dry_run, emails, idx, ridx, aidx, decisions,
          terminated, labels, stats, log, outcomes, calls, first_run>>

-----------------------------------------------------------------------------
(* Bounds of the model.                                                    *)

MaxRules == 2       \* longest rule list drawn from RulePool
MaxEmails == 2      \* longest batch drawn from EmailPool
MaxCalls == 3       \* longest sequence of decide calls on a stand-alone ledger
MaxEngineRules == 3 \* longest rule list drawn from EngineRulePool
MaxChildren == 2    \* longest child list of an all/any node of ConditionPool

-----------------------------------------------------------------------------
(* Python values.                                                          *)

PyNone == [py |-> "none"]
PyStr(s) == [py |-> "str", v |-> s]
PyList(s) == [py |-> "list", v |-> s]
PyDict(r) == [py |-> "dict", v |-> r]
PyBool(b) == [py |-> "bool", v |-> b]
PyInt(n) == [py |-> "int", v |-> n]

\* bool(x) of a Python value
Truthy(x) ==
    CASE x.py = "none" -> FALSE
      [] x.py = "str"  -> x.v # <<>>
      [] x.py = "list" -> x.v # <<>>
      [] x.py = "dict" -> DOMAIN x.v # {}
      [] x.py = "bool" -> x.v
      [] x.py = "int"  -> x.v # 0

\* k in d, for a dict d
HasKey(d, k) == k \in DOMAIN d.v

\* d.get(k), for a dict d
DictGet(d, k) == IF HasKey(d, k) THEN d.v[k] ELSE PyNone

\* str.lower() on one character, over the alphabet the pools below use
LowerChar(c) ==
    CASE c = "V" -> "v"
      [] c = "I" -> "i"
      [] c = "N" -> "n"
      [] c = "X" -> "x"
      [] OTHER   -> c

\* str.lower()
Lower(s) == [i \in 1..Len(s) |-> LowerChar(s[i])]

\* needle in hay, for two strings
IsSubstr(needle, hay) ==
    \E i \in 0..(Len(hay) - Len(needle)) :
        SubSeq(hay, i + 1, i + Len(needle)) = needle

\* hay.startswith(p), hay.endswith(p)
StartsWith(hay, p) == Len(p) <= Len(hay) /\ SubSeq(hay, 1, Len(p)) = p
EndsWith(hay, p) ==
    Len(p) <= Len(hay) /\ SubSeq(hay, Len(hay) - Len(p) + 1, Len(hay)) = p

\* position of the first "@" of s, 0 when there is none
FirstAt(s) ==
    IF \E i \in 1..Len(s) : s[i] = "@"
    THEN CHOOSE i \in 1..Len(s) : s[i] = "@" /\ \A j \in 1..(i - 1) : s[j] # "@"
    ELSE 0

\* email.split("@", 1)[-1] if "@" in email else ""
_extract_domain(email) ==
    IF FirstAt(email) = 0 THEN <<>>
    ELSE SubSeq(email, FirstAt(email) + 1, Len(email))

\* the set of the elements of a sequence
Range(s) == {s[i] : i \in 1..Len(s)}

-----------------------------------------------------------------------------
(* LabelDecisions: the per-message ledger.                                 *)
(* decisions is the dict as its ordered item list (insertion order is what *)
(* pending_additions iterates); sources is the provenance map.  An Optional*)
(* field is [is_none |-> BOOLEAN, v |-> value].                            *)

Labels == {"VIP", "fyi", "todo", "ghost"}

NONE == "none"
ADD == "add"
EXCLUDE == "exclude"

\* f"rule:{name}" is <<"rule", name>>, "llm" is <<"llm">>
RuleSource(name) == <<"rule", name>>
LlmSource == <<"llm">>

Sources == {RuleSource("A"), RuleSource("B"), LlmSource}

\* LabelDecisions(valid_labels=..., label_validator=...)
NewLabelDecisions(valid, validator) ==
    [valid_labels |-> valid, label_validator |-> validator,
     decisions |-> <<>>, sources |-> <<>>]

\* self.decisions.get(label, LabelDecision.NONE)
DecisionOf(self, label) ==
    IF \E i \in 1..Len(self.decisions) : self.decisions[i].label = label
    THEN (CHOOSE it \in Range(self.decisions) : it.label = label).state
    ELSE NONE

\* self.decisions[label] = new_state: an existing key keeps its position
SetDecision(items, label, new_state) ==
    IF \E i \in 1..Len(items) : items[i].label = label
    THEN [i \in 1..Len(items) |->
            IF items[i].label = label
            THEN [label |-> label, state |-> new_state] ELSE items[i]]
    ELSE Append(items, [label |-> label, state |-> new_state])

\* faulty variant: every label is accepted
ValidateAll(self, label) == TRUE

\* faulty variant: the label must be in the known set and pass the validator
ValidateBoth(self, label) ==
    /\ ~self.valid_labels.is_none
    /\ label \in self.valid_labels.v
    /\ ~self.label_validator.is_none
    /\ label \in self.label_validator.v

\* _validate_label returns (TRUE) or raises ValueError (FALSE)
_validate_label(self, label) ==
    \/ /\ ~self.valid_labels.is_none
       /\ self.valid_labels.v # {}
       /\ label \in self.valid_labels.v
    \/ /\ ~self.label_validator.is_none
       /\ label \in self.label_validator.v

\* the call self.label_validator(label) is made: the first test of
\* _validate_label did not return and there is a validator
validator_called(self, label) ==
    /\ ~(/\ ~self.valid_labels.is_none
         /\ self.valid_labels.v # {}
         /\ label \in self.valid_labels.v)
    /\ ~self.label_validator.is_none

\* the provenance kept with a decision: the source that set the current state
RecordSource(srcs, label, source) ==
    [l \in (DOMAIN srcs) \cup {label} |-> IF l = label THEN source ELSE srcs[l]]

\* faulty variant: a label that has a decision keeps it (first write wins)
UpdateFirstWins(self, label, new_state, source) ==
    IF ~_validate_label(self, label)
    THEN [raised |-> TRUE, self |-> self]
    ELSE IF DecisionOf(self, label) # NONE
    THEN [raised |-> FALSE, self |-> self]
    ELSE [raised |-> FALSE,
          self |-> [self EXCEPT
                      !.decisions = SetDecision(self.decisions, label, new_state),
                      !.sources = RecordSource(self.sources, label, source)]]

\* faulty variant: a repeated decision deletes the key and inserts it again
UpdateReinserts(self, label, new_state, source) ==
    IF ~_validate_label(self, label)
    THEN [raised |-> TRUE, self |-> self]
    ELSE [raised |-> FALSE,
          self |-> [self EXCEPT
                      !.decisions =
                          IF DecisionOf(self, label) = new_state
                          THEN Append(SelectSeq(self.decisions,
                                                LAMBDA it : it.label # label),
                                      [label |-> label, state |-> new_state])
                          ELSE SetDecision(self.decisions, label, new_state),
                      !.sources = RecordSource(self.sources, label, source)]]

\* faulty variant: the label is validated after the decision is stored
UpdateThenValidate(self, label, new_state, source) ==
    [raised |-> ~_validate_label(self, label),
     self |-> IF DecisionOf(self, label) = new_state THEN self
              ELSE [self EXCEPT
                      !.decisions = SetDecision(self.decisions, label, new_state),
                      !.sources = RecordSource(self.sources, label, source)]]

\* faulty variant: a label once excluded stays excluded
UpdateExcludeSticks(self, label, new_state, source) ==
    IF ~_validate_label(self, label)
    THEN [raised |-> TRUE, self |-> self]
    ELSE IF DecisionOf(self, label) \in {new_state, EXCLUDE}
    THEN [raised |-> FALSE, self |-> self]
    ELSE [raised |-> FALSE,
          self |-> [self EXCEPT
                      !.decisions = SetDecision(self.decisions, label, new_state),
                      !.sources = RecordSource(self.sources, label, source)]]

_update_label(self, label, new_state, source) ==
    IF ~_validate_label(self, label)
    THEN [raised |-> TRUE, self |-> self]
    ELSE IF DecisionOf(self, label) = new_state
    THEN [raised |-> FALSE, self |-> self]
    ELSE [raised |-> FALSE,
          self |-> [self EXCEPT
                      !.decisions = SetDecision(self.decisions, label, new_state),
                      !.sources = RecordSource(self.sources, label, source)]]

\* faulty variant: the added label replaces what the ledger held
AddLabelReplaces(self, label, source) ==
    _update_label([self EXCEPT !.decisions = <<>>, !.sources = <<>>], label, ADD, source)

add_label(self, label, source) == _update_label(self, label, ADD, source)

exclude_label(self, label, source) == _update_label(self, label, EXCLUDE, source)

\* the labels of the items in state st, in dict order
LabelsInState(items, st) ==
    LET F[i \in 0..Len(items)] ==
            IF i = 0 THEN <<>>
            ELSE IF items[i].state = st THEN Append(F[i - 1], items[i].label)
            ELSE F[i - 1]
    IN F[Len(items)]

\* faulty variant: every label of the ledger, whatever its state
PendingIncludesExcluded(self) ==
    [i \in 1..Len(self.decisions) |-> self.decisions[i].label]

pending_additions(self) == LabelsInState(self.decisions, ADD)

excluded_labels(self) == Range(LabelsInState(self.decisions, EXCLUDE))

\* faulty variant: an exclusion is never seen
IsExcludedNever(self, label) == FALSE

is_excluded(self, label) == DecisionOf(self, label) = EXCLUDE

\* faulty variant: the labels to apply, last entered first
FinalLabelsReversed(self) ==
    LET ls == pending_additions(self)
    IN [i \in 1..Len(ls) |-> ls[Len(ls) + 1 - i]]

final_labels(self) == pending_additions(self)

\* the provenance of the labels of final_labels()
final_label_sources(self) ==
    [l \in Range(pending_additions(self)) |-> self.sources[l]]

-----------------------------------------------------------------------------
(* The condition evaluator.  A result is Yes, No or Raise (the Python      *)
(* exception a malformed value provokes: AttributeError, TypeError,        *)
(* ValueError).  A leaf is a chain of checks, each "pass", "false" (the    *)
(* code returns False there) or "raise"; the first that does not pass      *)
(* decides.                                                                *)

Yes == "true"
No == "false"
Raise == "raise"

FromBool(b) == IF b THEN Yes ELSE No

Chain(checks) ==
    LET bad == {i \in 1..Len(checks) : checks[i] # "pass"}
        first == CHOOSE i \in bad : \A j \in bad : i <= j
    IN IF bad = {} THEN Yes
       ELSE IF checks[first] = "false" THEN No ELSE Raise

\* `if <test>: return False`
FalseIf(test) == IF test THEN "false" ELSE "pass"

\* RuleContext(...) with __post_init__
RuleContext(email, decs, my_addresses, primary_email) ==
    [sender_lower |-> Lower(email.sender),
     subject_lower |-> Lower(email.subject),
     content_lower |-> Lower(email.content),
     snippet_lower |-> Lower(email.snippet),
     to |-> email.to, cc |-> email.cc, bcc |-> email.bcc,
     all_recipients |-> email.to \o email.cc \o email.bcc,
     existing_labels |-> email.existing_labels,
     decisions |-> decs,
     my_addresses |-> my_addresses,
     primary_domain |-> _extract_domain(primary_email)]

\* normalize(values) of _match_text: [raised, v]
normalize(values) ==
    CASE values.py = "str"  -> [raised |-> FALSE, v |-> <<values.v>>]
      [] values.py = "list" -> [raised |-> FALSE, v |-> values.v]
      [] ~Truthy(values)    -> [raised |-> FALSE, v |-> <<>>]
      [] OTHER              -> [raised |-> TRUE, v |-> <<>>]

contains_all(values, text_value) ==
    \A i \in 1..Len(values) : IsSubstr(Lower(values[i]), text_value)

contains_any(values, text_value) ==
    \E i \in 1..Len(values) : IsSubstr(Lower(values[i]), text_value)

starts_with_any(values, text_value) ==
    \E i \in 1..Len(values) : StartsWith(text_value, Lower(values[i]))

ends_with_any(values, text_value) ==
    \E i \in 1..Len(values) : EndsWith(text_value, Lower(values[i]))

equals_any(values, text_value) ==
    \E i \in 1..Len(values) : text_value = Lower(values[i])

\* one `if "<op>" in spec and <test on normalize(spec["<op>"])>: return False`
TextCheck(spec, op, text_value) ==
    IF ~HasKey(spec, op) THEN "pass"
    ELSE LET n == normalize(spec.v[op])
         IN IF n.raised THEN "raise"
            ELSE CASE op = "contains_all" -> FalseIf(~contains_all(n.v, text_value))
                   [] op = "contains_any" -> FalseIf(~contains_any(n.v, text_value))
                   [] op = "not_contains" -> FalseIf(contains_any(n.v, text_value))
                   [] op = "starts_with"  -> FalseIf(~starts_with_any(n.v, text_value))
                   [] op = "ends_with"    -> FalseIf(~ends_with_any(n.v, text_value))
                   [] op = "equals_any"   -> FalseIf(~equals_any(n.v, text_value))

_match_text(spec, text_value) ==
    IF ~Truthy(spec) THEN Yes
    ELSE IF spec.py = "str" THEN FromBool(IsSubstr(Lower(spec.v), text_value))
    ELSE IF spec.py # "dict" THEN No
    ELSE Chain(<<TextCheck(spec, "contains_all", text_value),
                 TextCheck(spec, "contains_any", text_value),
                 TextCheck(spec, "not_contains", text_value),
                 TextCheck(spec, "starts_with", text_value),
                 TextCheck(spec, "ends_with", text_value),
                 TextCheck(spec, "equals_any", text_value)>>)

\* {entry.lower() for entry in x}: [raised, v]
LowerSet(x) ==
    CASE x.py = "list" -> [raised |-> FALSE, v |-> {Lower(e) : e \in Range(x.v)}]
      [] x.py = "str"  -> [raised |-> FALSE, v |-> {<<LowerChar(c)>> : c \in Range(x.v)}]
      [] OTHER         -> [raised |-> TRUE, v |-> {}]

\* `x = spec.get(op); if x and value [not] in {entry.lower() for entry in x}: return False`
SenderCheck(spec, op, value, must_be_in) ==
    LET x == DictGet(spec, op)
    IN IF ~Truthy(x) THEN "pass"
       ELSE IF LowerSet(x).raised THEN "raise"
       ELSE FalseIf((value \in LowerSet(x).v) # must_be_in)

\* `contains = spec.get("contains"); if contains and not _match_text(...): return False`
SenderContainsCheck(spec, value) ==
    LET x == DictGet(spec, "contains")
    IN IF ~Truthy(x) THEN "pass"
       ELSE LET r == _match_text(x, value)
            IN IF r = Raise THEN "raise" ELSE FalseIf(r = No)

_match_sender(spec, context) ==
    IF spec.py # "dict" THEN Raise
    ELSE LET value == context.sender_lower
             domain == _extract_domain(context.sender_lower)
         IN Chain(<<SenderCheck(spec, "in", value, TRUE),
                    SenderCheck(spec, "not_in", value, FALSE),
                    SenderCheck(spec, "domains", domain, TRUE),
                    SenderCheck(spec, "domains_not", domain, FALSE),
                    SenderContainsCheck(spec, value)>>)

\* `if "<op>" in spec: if <test over spec["<op>"]>: return False`
\* a value that cannot be iterated raises TypeError
LabelSetCheck(spec, op, labels_) ==
    IF ~HasKey(spec, op) THEN "pass"
    ELSE LET x == spec.v[op]
         IN IF x.py \notin {"list", "str"} THEN "raise"
            ELSE LET members == IF x.py = "list" THEN Range(x.v) ELSE {}
                     count == Len(x.v)
                 IN CASE op = "has_any" ->
                            FalseIf(~(\E l \in members : l \in labels_))
                      [] op = "has_all" ->
                            FalseIf(~(IF x.py = "list"
                                      THEN \A l \in members : l \in labels_
                                      ELSE count = 0))
                      [] op = "missing_all" ->
                            FalseIf(\E l \in members : l \in labels_)

_match_label_sets(spec, labels_) ==
    IF ~Truthy(spec) THEN Yes
    ELSE IF spec.py \in {"int", "bool"} THEN Raise
    ELSE IF spec.py # "dict" THEN Yes
    ELSE Chain(<<LabelSetCheck(spec, "has_any", labels_),
                 LabelSetCheck(spec, "has_all", labels_),
                 LabelSetCheck(spec, "missing_all", labels_)>>)

\* int(x): [raised, v]
PyToInt(x) ==
    CASE x.py = "int"  -> [raised |-> FALSE, v |-> x.v]
      [] x.py = "bool" -> [raised |-> FALSE, v |-> IF x.v THEN 1 ELSE 0]
      [] OTHER         -> [raised |-> TRUE, v |-> 0]

default_patterns ==
    << <<"-", "l", "i", "s", "t", "@">>,
       <<"@", "g", "o", "o", "g", "l", "e", "g", "r", "o", "u", "p", "s", ".", "c", "o", "m">>,
       <<"@", "l", "i", "s", "t", "s", ".">>,
       <<"+", "l", "i", "s", "t", "@">>,
       <<"n", "e", "w", "s", "l", "e", "t", "t", "e", "r", "@">> >>

\* patterns is the list handed in, or <<>> for a falsy value
_looks_like_mailing_list(address, patterns) ==
    LET all_patterns == patterns \o default_patterns
    IN \E i \in 1..Len(all_patterns) :
          /\ all_patterns[i] # <<>>
          /\ IsSubstr(Lower(all_patterns[i]), Lower(address))

\* `if "<op>" in spec and not (total <cmp> int(spec["<op>"])): return False`
TotalCheck(spec, op, total) ==
    IF ~HasKey(spec, op) THEN "pass"
    ELSE LET n == PyToInt(spec.v[op])
         IN IF n.raised THEN "raise"
            ELSE IF op = "total_more_than" THEN FalseIf(~(total > n.v))
            ELSE FalseIf(~(total < n.v))

\* includes_any: any_in(includes_any, recipients)
IncludesAnyCheck(spec, recipients) ==
    LET x == DictGet(spec, "includes_any")
    IN IF ~Truthy(x) THEN "pass"
       ELSE IF LowerSet(x).raised THEN "raise"
       ELSE FalseIf(~(\E a \in LowerSet(x).v :
                         a \in {Lower(r) : r \in Range(recipients)}))

\* includes_domains: the list is only read once per recipient domain
IncludesDomainsCheck(spec, domains) ==
    LET x == DictGet(spec, "includes_domains")
    IN IF ~Truthy(x) THEN "pass"
       ELSE IF domains = <<>> THEN "false"
       ELSE IF LowerSet(x).raised THEN "raise"
       ELSE FalseIf(~(\E d \in Range(domains) : d \in LowerSet(x).v))

MailingListCheck(spec, recipients) ==
    IF ~Truthy(DictGet(spec, "contains_mailing_list")) THEN "pass"
    ELSE LET p == DictGet(spec, "mailing_list_patterns")
         IN IF recipients = <<>> THEN "false"
            ELSE IF Truthy(p) /\ p.py # "list" THEN "raise"
            ELSE FalseIf(~(\E a \in Range(recipients) :
                              _looks_like_mailing_list(
                                  a, IF Truthy(p) THEN p.v ELSE <<>>)))

_match_recipients(spec, context) ==
    IF spec.py # "dict" THEN Raise
    ELSE LET recipients == context.all_recipients
             total == Len(recipients)
             my == context.my_addresses
             domains == [i \in 1..Len(recipients) |-> _extract_domain(recipients[i])]
             primary_domain == context.primary_domain
         IN Chain(<<
              FalseIf(/\ Truthy(DictGet(spec, "only_me"))
                      /\ \/ recipients = <<>>
                         \/ \E a \in Range(recipients) : a \notin my),
              FalseIf(/\ Truthy(DictGet(spec, "not_on_to"))
                      /\ \E a \in Range(context.to) : a \in my),
              FalseIf(/\ Truthy(DictGet(spec, "cc_me"))
                      /\ ~(\E a \in Range(context.cc) : a \in my)),
              FalseIf(/\ Truthy(DictGet(spec, "to_me"))
                      /\ ~(\E a \in Range(context.to) : a \in my)),
              TotalCheck(spec, "total_more_than", total),
              TotalCheck(spec, "total_less_than", total),
              IncludesAnyCheck(spec, recipients),
              IncludesDomainsCheck(spec, domains),
              MailingListCheck(spec, recipients),
              FalseIf(/\ Truthy(DictGet(spec, "all_internal"))
                      /\ \/ primary_domain = <<>>
                         \/ recipients = <<>>
                         \/ \E d \in Range(domains) : d # <<>> /\ d # primary_domain),
              FalseIf(/\ Truthy(DictGet(spec, "any_external"))
                      /\ \/ primary_domain = <<>>
                         \/ ~(\E d \in Range(domains) : d # <<>> /\ d # primary_domain)),
              FalseIf(/\ Truthy(DictGet(spec, "sender_in_recipients"))
                      /\ context.sender_lower \notin Range(recipients)) >>)

RECURSIVE _evaluate_condition(_, _)
RECURSIVE EvalAll(_, _, _)
RECURSIVE EvalAny(_, _, _)

\* all(self._evaluate_condition(sub, context) for sub in subs[i..]): stops at
\* the first child that is false or raises
EvalAll(subs, i, context) ==
    IF i > Len(subs) THEN Yes
    ELSE LET r == _evaluate_condition(subs[i], context)
         IN IF r = Yes THEN EvalAll(subs, i + 1, context) ELSE r

\* any(...): stops at the first child that is true or raises
EvalAny(subs, i, context) ==
    IF i > Len(subs) THEN No
    ELSE LET r == _evaluate_condition(subs[i], context)
         IN IF r = No THEN EvalAny(subs, i + 1, context) ELSE r

\* the children of an all/any node: a list is iterated; a string or a dict
\* iterates to characters or keys, none of which is a dict; anything else
\* cannot be iterated (TypeError)
Children(x) ==
    CASE x.py = "list" -> [raised |-> FALSE, v |-> x.v]
      [] x.py = "str"  -> [raised |-> FALSE,
                           v |-> [i \in 1..Len(x.v) |-> PyStr(<<x.v[i]>>)]]
      [] x.py = "dict" -> [raised |-> FALSE,
                           v |-> [i \in 1..Cardinality(DOMAIN x.v) |-> PyStr(<<"k">>)]]
      [] OTHER         -> [raised |-> TRUE, v |-> <<>>]

\* faulty variant: the subject key is read before the sender key
EvaluateSubjectFirst(condition, context) ==
    IF ~Truthy(condition) THEN Yes
    ELSE IF condition.py # "dict" THEN No
    ELSE IF HasKey(condition, "all")
    THEN LET c == Children(condition.v["all"])
         IN IF c.raised THEN Raise ELSE EvalAll(c.v, 1, context)
    ELSE IF HasKey(condition, "any")
    THEN LET c == Children(condition.v["any"])
         IN IF c.raised THEN Raise ELSE EvalAny(c.v, 1, context)
    ELSE IF HasKey(condition, "not")
    THEN LET r == _evaluate_condition(condition.v["not"], context)
         IN IF r = Raise THEN Raise ELSE FromBool(r = No)
    ELSE IF HasKey(condition, "subject")
    THEN _match_text(condition.v["subject"], context.subject_lower)
    ELSE IF HasKey(condition, "sender")
    THEN _match_sender(condition.v["sender"], context)
    ELSE IF HasKey(condition, "body") \/ HasKey(condition, "content")
    THEN _match_text(IF Truthy(DictGet(condition, "body"))
                     THEN DictGet(condition, "body")
                     ELSE DictGet(condition, "content"),
                     context.content_lower)
    ELSE IF HasKey(condition, "snippet")
    THEN _match_text(condition.v["snippet"], context.snippet_lower)
    ELSE IF HasKey(condition, "recipients")
    THEN _match_recipients(condition.v["recipients"], context)
    ELSE IF HasKey(condition, "existing_labels")
    THEN _match_label_sets(condition.v["existing_labels"], context.existing_labels)
    ELSE IF HasKey(condition, "decided_labels")
    THEN _match_label_sets(condition.v["decided_labels"],
                           Range(pending_additions(context.decisions)))
    ELSE IF HasKey(condition, "excluded_labels")
    THEN _match_label_sets(condition.v["excluded_labels"],
                           excluded_labels(context.decisions))
    ELSE No

_evaluate_condition(condition, context) ==
    IF ~Truthy(condition) THEN Yes
    ELSE IF condition.py # "dict" THEN No
    ELSE IF HasKey(condition, "all")
    THEN LET c == Children(condition.v["all"])
         IN IF c.raised THEN Raise ELSE EvalAll(c.v, 1, context)
    ELSE IF HasKey(condition, "any")
    THEN LET c == Children(condition.v["any"])
         IN IF c.raised THEN Raise ELSE EvalAny(c.v, 1, context)
    ELSE IF HasKey(condition, "not")
    THEN LET r == _evaluate_condition(condition.v["not"], context)
         IN IF r = Raise THEN Raise ELSE FromBool(r = No)
    ELSE IF HasKey(condition, "sender")
    THEN _match_sender(condition.v["sender"], context)
    ELSE IF HasKey(condition, "subject")
    THEN _match_text(condition.v["subject"], context.subject_lower)
    ELSE IF HasKey(condition, "body") \/ HasKey(condition, "content")
    THEN _match_text(IF Truthy(DictGet(condition, "body"))
                     THEN DictGet(condition, "body")
                     ELSE DictGet(condition, "content"),
                     context.content_lower)
    ELSE IF HasKey(condition, "snippet")
    THEN _match_text(condition.v["snippet"], context.snippet_lower)
    ELSE IF HasKey(condition, "recipients")
    THEN _match_recipients(condition.v["recipients"], context)
    ELSE IF HasKey(condition, "existing_labels")
    THEN _match_label_sets(condition.v["existing_labels"], context.existing_labels)
    ELSE IF HasKey(condition, "decided_labels")
    THEN _match_label_sets(condition.v["decided_labels"],
                           Range(pending_additions(context.decisions)))
    ELSE IF HasKey(condition, "excluded_labels")
    THEN _match_label_sets(condition.v["excluded_labels"],
                           excluded_labels(context.decisions))
    ELSE No

-----------------------------------------------------------------------------
(* DeterministicRuleEngine.                                                *)

\* faulty variant: a rule without a condition matches nothing
RuleMatchesNeedsCondition(rule, context) ==
    IF ~Truthy(rule.conditions) THEN No
    ELSE _evaluate_condition(rule.conditions, context)

_rule_matches(rule, context) ==
    IF ~Truthy(rule.conditions) THEN Yes
    ELSE _evaluate_condition(rule.conditions, context)

\* faulty variant: the excludes are made before the adds
ActionListExcludesFirst(rule) ==
    [i \in 1..Len(rule.exclude_labels) |->
        [label |-> rule.exclude_labels[i], state |-> EXCLUDE]]
    \o [i \in 1..Len(rule.add_labels) |->
        [label |-> rule.add_labels[i], state |-> ADD]]

\* the decide calls of _apply_actions, in order: every add, then every exclude
ActionList(rule) ==
    [i \in 1..Len(rule.add_labels) |->
        [label |-> rule.add_labels[i], state |-> ADD]]
    \o [i \in 1..Len(rule.exclude_labels) |->
        [label |-> rule.exclude_labels[i], state |-> EXCLUDE]]

RECURSIVE ApplyFrom(_, _, _, _)
\* the calls acts[i..] on the ledger; the first that raises ends the loop and
\* leaves what the earlier calls did
ApplyFrom(self, acts, i, source) ==
    IF i > Len(acts) THEN [raised |-> FALSE, self |-> self]
    ELSE LET r == _update_label(self, acts[i].label, acts[i].state, source)
         IN IF r.raised THEN r ELSE ApplyFrom(r.self, acts, i + 1, source)

\* faulty variant: the decisions of a rule are recorded without its name
ApplyActionsUnnamed(rule, self) ==
    ApplyFrom(self, ActionList(rule), 1, RuleSource(""))

_apply_actions(rule, self) ==
    ApplyFrom(self, ActionList(rule), 1, RuleSource(rule.name))

-----------------------------------------------------------------------------
(* The configuration the workflow is constructed with, and the pools the   *)
(* rule list and the inbox are drawn from.                                 *)

\* Config.load_label_config(): the names of the label catalog
label_config == <<"VIP", "fyi">>

valid_labels == Range(label_config)

\* the labels the provider knows: GmailClient.label_exists
GmailLabels == {"VIP", "fyi", "todo"}

Me == <<"i", "@", "x">>
VipAddr == <<"v", "@", "x">>
OtherAddr == <<"n", "@", "n">>

primary_email == Me
user_addresses == {Me}

EmailPool ==
    { [sender |-> VipAddr, subject |-> <<"I", "n", "v">>, content |-> <<"x">>,
       snippet |-> <<"x">>, to |-> <<Me>>, cc |-> <<>>, bcc |-> <<>>,
       existing_labels |-> {}],
      [sender |-> OtherAddr, subject |-> <<"x">>, content |-> <<"i", "n">>,
       snippet |-> <<"i">>, to |-> <<OtherAddr>>, cc |-> <<Me>>, bcc |-> <<>>,
       existing_labels |-> {"todo"}],
      [sender |-> VipAddr, subject |-> <<"x">>, content |-> <<>>,
       snippet |-> <<>>, to |-> <<Me, VipAddr>>, cc |-> <<>>, bcc |-> <<>>,
       existing_labels |-> {}] }

RulePool ==
    { [name |-> "vip",
       conditions |-> PyDict([sender |-> PyDict([in |-> PyList(<< <<"V", "@", "X">> >>)])]),
       add_labels |-> <<"VIP">>, exclude_labels |-> <<>>, terminate |-> FALSE],
      [name |-> "drop",
       conditions |-> PyDict([subject |->
                        PyDict([contains_any |-> PyList(<< <<"I", "N", "V">> >>)])]),
       add_labels |-> <<>>, exclude_labels |-> <<"fyi", "VIP">>, terminate |-> FALSE],
      [name |-> "stop",
       conditions |-> PyNone,
       add_labels |-> <<"todo">>, exclude_labels |-> <<>>, terminate |-> TRUE],
      [name |-> "bad",
       conditions |-> PyDict([existing_labels |->
                        PyDict([missing_all |-> PyList(<<"todo">>)])]),
       add_labels |-> <<"fyi", "ghost">>, exclude_labels |-> <<>>, terminate |-> FALSE],
      [name |-> "both",
       conditions |-> PyDict([any |-> PyList(<<
                        PyDict([decided_labels |->
                                  PyDict([has_any |-> PyList(<<"VIP">>)])]),
                        PyDict([existing_labels |->
                                  PyDict([has_any |-> PyList(<<"todo">>)])]) >>)]),
       add_labels |-> <<"todo", "fyi">>, exclude_labels |-> <<"fyi">>,
       terminate |-> FALSE],
      [name |-> "every",
       conditions |-> PyDict(<<>>),
       add_labels |-> <<"fyi">>, exclude_labels |-> <<>>, terminate |-> FALSE],
      [name |-> "malformed",
       conditions |-> PyDict([sender |-> PyStr(VipAddr)]),
       add_labels |-> <<"VIP">>, exclude_labels |-> <<>>, terminate |-> FALSE],
      [name |-> "swap",
       conditions |-> PyNone,
       add_labels |-> <<"VIP", "fyi">>, exclude_labels |-> <<>>, terminate |-> FALSE] }

\* the sequences over S of length at most n
SeqsUpTo(S, n) == UNION {[1..k -> S] : k \in 0..n}

\* rule lists: names are unique
RuleLists ==
    {rs \in SeqsUpTo(RulePool, MaxRules) :
        \A i, j \in 1..Len(rs) : i # j => rs[i].name # rs[j].name}

Inboxes == SeqsUpTo(EmailPool, MaxEmails)

-----------------------------------------------------------------------------
(* EmailTriageWorkflow.run, one step at a time.                            *)

NoLabelDecisions ==
    NewLabelDecisions([is_none |-> TRUE, v |-> {}], [is_none |-> TRUE, v |-> {}])

NoFirstRun == [set |-> FALSE]

NewStats ==
    [processed |-> 0, succeeded |-> 0, failed |-> 0,
     classifications |-> [l \in valid_labels |-> 0]]

Init ==
    /\ rules \in RuleLists
    /\ inbox \in Inboxes
    /\ pc = "start"
    /\ dry_run = FALSE
    /\ emails = <<>>
    /\ idx = 0
    /\ ridx = 0
    /\ aidx = 0
    /\ decisions = NoLabelDecisions
    /\ terminated = FALSE
    /\ labels = <<>>
    /\ stats = NewStats
    /\ log = <<>>
    /\ outcomes = <<>>
    /\ calls = <<>>
    /\ first_run = NoFirstRun

\* a log entry; prev is the state the ledger held for the label before an
\* answer of the classifier was reconciled
Event(ev, rule, label, res) ==
    [ev |-> ev, msg |-> idx, rule |-> rule, label |-> label, res |-> res,
     prev |-> IF ev = "llm" /\ res = "ok" THEN DecisionOf(decisions, label) ELSE NONE]

Min(a, b) == IF a <= b THEN a ELSE b

\* run up to the loop: the stats dictionary, the max_emails guard and the fetch
StartRun(max_emails, dry, fetch_ok) ==
    /\ dry_run' = dry
    /\ stats' = NewStats
    /\ log' = <<>>
    /\ outcomes' = <<>>
    /\ idx' = 1
    /\ IF max_emails <= 0
       THEN pc' = "done" /\ emails' = <<>>
       ELSE IF ~fetch_ok
       THEN pc' = "raised" /\ emails' = <<>>
       ELSE /\ emails' = SubSeq(inbox, 1, Min(max_emails, Len(inbox)))
            /\ pc' = IF emails' = <<>> THEN "done" ELSE "loop"
    /\ UNCHANGED <<rules, inbox, ridx, aidx, decisions, terminated, labels, calls>>

Start ==
    /\ pc = "start"
    /\ \E max_emails \in {0, MaxEmails}, dry \in BOOLEAN, fetch_ok \in BOOLEAN :
          StartRun(max_emails, dry, fetch_ok)
    /\ UNCHANGED first_run

\* faulty variant: the exception of a message leaves run
FailAborts(decs, events) ==
    /\ pc' = "raised"
    /\ log' = log \o events
    /\ decisions' = decs
    /\ UNCHANGED <<stats, outcomes, idx>>

\* faulty variant: the failure is counted and the loop is left (break)
FailBreaks(decs, events) ==
    /\ stats' = [stats EXCEPT !.failed = @ + 1]
    /\ outcomes' = Append(outcomes, [status |-> "failed", ledger |-> decs.decisions,
                                     final_labels |-> <<>>, label_sources |-> <<>>])
    /\ log' = log \o events
    /\ decisions' = decs
    /\ idx' = idx + 1
    /\ pc' = "done"

\* faulty variant: the labels of the failed message are counted all the same
FailCountsLabels(decs, events) ==
    /\ stats' = [stats EXCEPT !.failed = @ + 1,
                              !.classifications =
                                  [l \in DOMAIN @ \cup Range(final_labels(decs)) |->
                                      (IF l \in DOMAIN @ THEN @[l] ELSE 0)
                                      + (IF l \in Range(final_labels(decs))
                                         THEN 1 ELSE 0)]]
    /\ outcomes' = Append(outcomes, [status |-> "failed", ledger |-> decs.decisions,
                                     final_labels |-> <<>>, label_sources |-> <<>>])
    /\ log' = log \o events
    /\ decisions' = decs
    /\ idx' = idx + 1
    /\ pc' = "loop"

\* the `except Exception` of the loop: the message is counted as failed
Fail(decs, events) ==
    /\ stats' = [stats EXCEPT !.failed = @ + 1]
    /\ outcomes' = Append(outcomes, [status |-> "failed", ledger |-> decs.decisions,
                                     final_labels |-> <<>>, label_sources |-> <<>>])
    /\ log' = log \o events
    /\ decisions' = decs
    /\ idx' = idx + 1
    /\ pc' = "loop"

\* faulty variant: the message is left without its labels being applied
ResolveSkipsApply(decs, events) ==
    /\ decisions' = decs
    /\ log' = log \o events
    /\ labels' = final_labels(decs)
    /\ aidx' = 1
    /\ pc' = "sources"
    /\ UNCHANGED <<stats, outcomes, idx>>

\* final_labels = decisions.final_labels(), then _apply_labels is entered
Resolve(decs, events) ==
    /\ decisions' = decs
    /\ log' = log \o events
    /\ labels' = final_labels(decs)
    /\ aidx' = 1
    /\ pc' = "apply"
    /\ UNCHANGED <<stats, outcomes, idx>>

\* faulty variant: one ledger is made for the batch and used for every message
NextEmailSharesLedger ==
    /\ pc = "loop"
    /\ IF idx > Len(emails)
       THEN pc' = "done" /\ UNCHANGED <<stats, decisions, ridx>>
       ELSE /\ stats' = [stats EXCEPT !.processed = @ + 1]
            /\ decisions' =
                  IF idx = 1
                  THEN NewLabelDecisions([is_none |-> FALSE, v |-> valid_labels],
                                         [is_none |-> FALSE, v |-> GmailLabels])
                  ELSE decisions
            /\ ridx' = 1
            /\ pc' = "rules"
    /\ UNCHANGED <<rules, inbox, dry_run, emails, idx, aidx, terminated, labels,
                   log, outcomes, calls, first_run>>

\* the head of the loop and the head of _process_email
NextEmail ==
    /\ pc = "loop"
    /\ IF idx > Len(emails)
       THEN pc' = "done" /\ UNCHANGED <<stats, decisions, ridx>>
       ELSE /\ stats' = [stats EXCEPT !.processed = @ + 1]
            /\ decisions' = NewLabelDecisions([is_none |-> FALSE, v |-> valid_labels],
                                              [is_none |-> FALSE, v |-> GmailLabels])
            /\ ridx' = 1
            /\ pc' = "rules"
    /\ UNCHANGED <<rules, inbox, dry_run, emails, idx, aidx, terminated, labels,
                   log, outcomes, calls, first_run>>

\* faulty variant: the terminate flag is ignored
TerminatesNever(rule) == FALSE

\* faulty variant: a rule that adds a label ends the processing as well
TerminatesOnAdd(rule) == rule.terminate \/ rule.add_labels # <<>>

\* `if rule.terminate: return True`
Terminates(rule) == rule.terminate

\* one iteration of the loop of DeterministicRuleEngine.run
RuleStep ==
    /\ pc = "rules"
    /\ IF ridx > Len(rules)
       THEN /\ terminated' = FALSE
            /\ pc' = "classify"
            /\ UNCHANGED <<decisions, log, stats, outcomes, idx, ridx, labels, aidx>>
       ELSE LET rule == rules[ridx]
                context == RuleContext(emails[idx], decisions, user_addresses,
                                       primary_email)
                m == _rule_matches(rule, context)
                r == _apply_actions(rule, decisions)
            IN IF m = Raise
               THEN /\ Fail(decisions, <<Event("rule", ridx, "", "raise")>>)
                    /\ UNCHANGED <<ridx, terminated, labels, aidx>>
               ELSE IF m = No
               THEN /\ ridx' = ridx + 1
                    /\ log' = Append(log, Event("rule", ridx, "", "false"))
                    /\ UNCHANGED <<decisions, stats, outcomes, idx, pc, terminated,
                                   labels, aidx>>
               ELSE IF r.raised
               THEN /\ Fail(r.self, <<Event("rule", ridx, "", "error")>>)
                    /\ UNCHANGED <<ridx, terminated, labels, aidx>>
               ELSE IF Terminates(rule)
               THEN /\ terminated' = TRUE
                    /\ Resolve(r.self, <<Event("rule", ridx, "", "true")>>)
                    /\ UNCHANGED ridx
               ELSE /\ ridx' = ridx + 1
                    /\ decisions' = r.self
                    /\ log' = Append(log, Event("rule", ridx, "", "true"))
                    /\ UNCHANGED <<stats, outcomes, idx, pc, terminated, labels, aidx>>
    /\ UNCHANGED <<rules, inbox, dry_run, emails, calls, first_run>>

\* in the second of two paired runs the classifier answers as in the first
Replays(ok, c) ==
    first_run.set =>
        \E i \in 1..Len(first_run.log) :
            /\ first_run.log[i].ev = "llm"
            /\ first_run.log[i].msg = idx
            /\ first_run.log[i].res = (IF ok THEN "ok" ELSE "raise")
            /\ ok => first_run.log[i].label = c

\* the classifier call and the reconciliation of its answer
Classify ==
    /\ pc = "classify"
    /\ \E ok \in BOOLEAN, c \in Labels :
          /\ Replays(ok, c)
          /\ IF ~ok
             THEN /\ c = "VIP"
                  /\ Fail(decisions, <<Event("llm", 0, "", "raise")>>)
                  /\ UNCHANGED <<labels, aidx>>
             ELSE IF is_excluded(decisions, c)
             THEN Resolve(decisions, <<Event("llm", 0, c, "ok")>>)
             ELSE LET r == add_label(decisions, c, LlmSource)
                  IN IF r.raised
                     THEN /\ Fail(r.self, <<Event("llm", 0, c, "ok")>>)
                          /\ UNCHANGED <<labels, aidx>>
                     ELSE Resolve(r.self, <<Event("llm", 0, c, "ok")>>)
    /\ UNCHANGED <<rules, inbox, dry_run, emails, ridx, terminated, calls, first_run>>

\* faulty variant: the dry-run flag is ignored
DryRunIgnored(dry) == FALSE

\* `if dry_run: return`
DryRunReturns(dry) == dry

\* faulty variant: the existing labels are not looked at
AlreadyAppliedNever(label, existing_labels) == FALSE

\* `if label in existing_labels: continue`
AlreadyApplied(label, existing_labels) == label \in existing_labels

\* _apply_labels: the dry-run return, or one iteration of its loop
ApplyStep ==
    /\ pc = "apply"
    /\ IF DryRunReturns(dry_run) \/ aidx > Len(labels)
       THEN /\ pc' = "sources"
            /\ UNCHANGED <<aidx, log, stats, outcomes, idx, decisions>>
       ELSE IF AlreadyApplied(labels[aidx], emails[idx].existing_labels)
       THEN /\ aidx' = aidx + 1
            /\ UNCHANGED <<pc, log, stats, outcomes, idx, decisions>>
       ELSE \E ok \in BOOLEAN :
               IF ok
               THEN /\ aidx' = aidx + 1
                    /\ log' = Append(log, Event("apply", 0, labels[aidx], "ok"))
                    /\ UNCHANGED <<pc, stats, outcomes, idx, decisions>>
               ELSE /\ Fail(decisions, <<Event("apply", 0, labels[aidx], "raise")>>)
                    /\ UNCHANGED aidx
    /\ UNCHANGED <<rules, inbox, dry_run, emails, ridx, terminated, labels, calls,
                   first_run>>

\* stats["classifications"][label] = stats["classifications"].get(label, 0) + 1
_update_stats(classifications, ls) ==
    [l \in (DOMAIN classifications) \cup Range(ls) |->
        (IF l \in DOMAIN classifications THEN classifications[l] ELSE 0)
        + Cardinality({i \in 1..Len(ls) : ls[i] = l})]

\* the return of _process_email and the success branch of the loop
Finish ==
    /\ pc = "sources"
    /\ outcomes' = Append(outcomes,
                          [status |-> "ok", ledger |-> decisions.decisions,
                           final_labels |-> labels,
                           label_sources |-> final_label_sources(decisions)])
    /\ stats' = [stats EXCEPT
                    !.succeeded = @ + 1,
                    !.classifications = _update_stats(@, labels)]
    /\ idx' = idx + 1
    /\ pc' = "loop"
    /\ UNCHANGED <<rules, inbox, dry_run, emails, ridx, aidx, decisions, terminated,
                   labels, log, calls, first_run>>

Next ==
    \/ Start
    \/ NextEmail
    \/ RuleStep
    \/ Classify
    \/ ApplyStep
    \/ Finish

Spec == Init /\ [][Next]_vars

\* run is straight-line single-threaded code: as long as a statement remains
\* and every collaborator call returns or raises, the next step is taken
SpecFair == Init /\ [][Next]_vars /\ WF_vars(Next)

-----------------------------------------------------------------------------
(* A ledger used on its own, as the unit tests of the rule engine build it:*)
(* any sequence of decide calls, on a ledger of any configuration.         *)

Some(v) == [is_none |-> FALSE, v |-> v]
Nothing == [is_none |-> TRUE, v |-> {}]

LedgerConfigs ==
    { [valid |-> Some(valid_labels), validator |-> Some(GmailLabels)],
      [valid |-> Some(valid_labels), validator |-> Nothing],
      [valid |-> Nothing, validator |-> Some(GmailLabels)],
      [valid |-> Some({}), validator |-> Nothing],
      [valid |-> Nothing, validator |-> Nothing] }

InitLedger ==
    /\ rules = <<>>
    /\ inbox = <<>>
    /\ pc = "ledger"
    /\ dry_run = FALSE
    /\ emails = <<>>
    /\ idx = 0
    /\ ridx = 0
    /\ aidx = 0
    /\ decisions \in {NewLabelDecisions(c.valid, c.validator) : c \in LedgerConfigs}
    /\ terminated = FALSE
    /\ labels = <<>>
    /\ stats = NewStats
    /\ log = <<>>
    /\ outcomes = <<>>
    /\ calls = <<>>
    /\ first_run = NoFirstRun

\* one call of add_label or exclude_label
Decide ==
    /\ pc = "ledger"
    /\ Len(calls) < MaxCalls
    /\ \E label \in Labels, new_state \in {ADD, EXCLUDE}, source \in Sources :
          LET r == IF new_state = ADD
                   THEN add_label(decisions, label, source)
                   ELSE exclude_label(decisions, label, source)
          IN /\ decisions' = r.self
             /\ calls' = Append(calls, [label |-> label, state |-> new_state,
                                        source |-> source, raised |-> r.raised,
                                        consulted |-> validator_called(decisions, label),
                                        before |-> decisions])
    /\ UNCHANGED <<rules, inbox, pc, dry_run, emails, idx, ridx, aidx, terminated,
                   labels, stats, log, outcomes, first_run>>

NextLedger == Decide

SpecLedger == InitLedger /\ [][NextLedger]_vars

-----------------------------------------------------------------------------
(* Two runs over the same inbox and rules, one in each mode, the classifier*)
(* answering the same for the same message in both.                        *)

\* a finished run over the whole inbox is followed by a run in the other mode
Rerun ==
    /\ pc = "done"
    /\ ~first_run.set
    /\ emails = inbox
    /\ inbox # <<>>
    /\ first_run' = [set |-> TRUE, dry_run |-> dry_run, stats |-> stats,
                     outcomes |-> outcomes, log |-> log]
    /\ StartRun(MaxEmails, ~dry_run, TRUE)

NextPair ==
    \/ Next
    \/ Rerun

SpecPair == Init /\ [][NextPair]_vars

-----------------------------------------------------------------------------
(* The rule engine run on its own for one message, as the unit tests of the *)
(* engine call it: DeterministicRuleEngine.run(context) on a fresh ledger.  *)
(* It ends at "classify" (run returned False), "apply" (run returned True)  *)
(* or, counted as failed, at "loop" (run raised).                           *)

\* the rules of the engine's unit tests: sender leaves that name email groups
EngineRulePool ==
    { [name |-> "vip-group",
       conditions |-> PyDict([sender |-> PyDict([groups_any |-> PyList(<<"vip">>)])]),
       add_labels |-> <<"VIP">>, exclude_labels |-> <<>>, terminate |-> FALSE],
      [name |-> "skip-vip",
       conditions |-> PyDict([sender |-> PyDict([groups_not_any |-> PyList(<<"vip">>)])]),
       add_labels |-> <<"fyi">>, exclude_labels |-> <<>>, terminate |-> FALSE],
      [name |-> "bad-group",
       conditions |-> PyDict([sender |-> PyDict([groups_any |-> PyList(<<"nogroup">>)])]),
       add_labels |-> <<"todo">>, exclude_labels |-> <<>>, terminate |-> FALSE],
      [name |-> "vip-or-other",
       conditions |-> PyDict([sender |->
                        PyDict([groups_any |-> PyList(<<"vip", "team">>),
                                domains |-> PyList(<< <<"X">> >>)])]),
       add_labels |-> <<"VIP">>, exclude_labels |-> <<"fyi">>, terminate |-> TRUE],
      [name |-> "adder",
       conditions |-> PyNone,
       add_labels |-> <<"VIP">>, exclude_labels |-> <<>>, terminate |-> FALSE],
      [name |-> "excluder",
       conditions |-> PyNone,
       add_labels |-> <<>>, exclude_labels |-> <<"VIP">>, terminate |-> FALSE],
      [name |-> "if-added",
       conditions |-> PyDict([decided_labels |-> PyDict([has_any |-> PyList(<<"VIP">>)])]),
       add_labels |-> <<"VIP", "fyi">>, exclude_labels |-> <<>>, terminate |-> FALSE],
      [name |-> "if-excluded",
       conditions |-> PyDict([excluded_labels |-> PyDict([has_any |-> PyList(<<"VIP">>)])]),
       add_labels |-> <<"todo">>, exclude_labels |-> <<"VIP">>, terminate |-> FALSE] }

EngineRuleLists ==
    {rs \in SeqsUpTo(EngineRulePool, MaxEngineRules) :
        \A i, j \in 1..Len(rs) : i # j => rs[i].name # rs[j].name}

InitEngine ==
    /\ rules \in EngineRuleLists
    /\ inbox \in {<<e>> : e \in EmailPool}
    /\ pc = "rules"
    /\ dry_run = FALSE
    /\ emails = inbox
    /\ idx = 1
    /\ ridx = 1
    /\ aidx = 0
    /\ decisions = NewLabelDecisions(Some(valid_labels), Some(GmailLabels))
    /\ terminated = FALSE
    /\ labels = <<>>
    /\ stats = [NewStats EXCEPT !.processed = 1]
    /\ log = <<>>
    /\ outcomes = <<>>
    /\ calls = <<>>
    /\ first_run = NoFirstRun

NextEngine == RuleStep

SpecEngine == InitEngine /\ [][NextEngine]_vars

-----------------------------------------------------------------------------
(* The condition evaluator on its own: one rule without actions, its        *)
(* condition drawn from a pool of condition trees, evaluated for one        *)
(* message.  The result is the res of the one log entry.                    *)

NotNode(c) == PyDict([not |-> c])
AllNode(cs) == PyDict([all |-> PyList(cs)])
AnyNode(cs) == PyDict([any |-> PyList(cs)])

\* leaves: a text leaf, a sender leaf, a sender leaf of unsupported shape and
\* a node with no recognised key
Leaves ==
    { PyDict([subject |-> PyStr(<<"I", "N", "V">>)]),
      PyDict([sender |-> PyDict([in |-> PyList(<<VipAddr>>)])]),
      PyDict([sender |-> PyStr(VipAddr)]),
      PyDict([priority |-> PyStr(<<"x">>)]) }

\* trees of depth one: the leaves, their negations and all/any over them
Level1 ==
    Leaves
    \cup {NotNode(c) : c \in Leaves}
    \cup {AllNode(cs) : cs \in SeqsUpTo(Leaves, MaxChildren)}
    \cup {AnyNode(cs) : cs \in SeqsUpTo(Leaves, MaxChildren)}

\* child lists of a node of depth two: a tree of depth one, then leaves
NestedLists ==
    {<<c>> \o cs : c \in Level1, cs \in SeqsUpTo(Leaves, MaxChildren - 1)}

\* trees of depth two
Level2 ==
    Level1
    \cup {NotNode(c) : c \in Level1}
    \cup {AllNode(cs) : cs \in NestedLists}
    \cup {AnyNode(cs) : cs \in NestedLists}

\* structures the evaluator has no meaning for: leaves whose spec names only
\* operators that do not exist, a label leaf given a string, a bare string
UnrecognisedPool ==
    { PyDict([sender |-> PyDict([regex |-> PyStr(<<"x">>)])]),
      PyDict([subject |-> PyDict([regex |-> PyStr(<<"x">>)])]),
      PyDict([recipients |-> PyDict([only_them |-> PyBool(TRUE)])]),
      PyDict([existing_labels |-> PyDict([has_none |-> PyList(<<"todo">>)])]),
      PyDict([decided_labels |-> PyStr(<<"x">>)]),
      PyStr(<<"x">>) }

\* one spec per recognised key
KeySpec ==
    [all |-> PyList(<<>>),
     any |-> PyList(<<>>),
     not |-> PyDict(<<>>),
     sender |-> PyDict([in |-> PyList(<<VipAddr>>)]),
     subject |-> PyStr(<<"i", "n", "v">>),
     body |-> PyStr(<<"i", "n">>),
     content |-> PyStr(<<"z">>),
     snippet |-> PyStr(<<"i">>),
     recipients |-> PyDict([cc_me |-> PyBool(TRUE)]),
     existing_labels |-> PyDict([has_any |-> PyList(<<"todo">>)]),
     decided_labels |-> PyDict([has_any |-> PyList(<<"VIP">>)]),
     excluded_labels |-> PyDict([has_any |-> PyList(<<"VIP">>)])]

\* the nodes that carry two recognised keys
TwoKeyPool ==
    {PyDict([k \in {a, b} |-> KeySpec[k]]) : a, b \in DOMAIN KeySpec} 

ConditionPool == Level2 \cup UnrecognisedPool \cup TwoKeyPool

\* the ledgers a condition is evaluated against: fresh, or after earlier rules
EvalLedgers ==
    { NewLabelDecisions(Some(valid_labels), Some(GmailLabels)),
      add_label(exclude_label(NewLabelDecisions(Some(valid_labels), Some(GmailLabels)),
                              "fyi", RuleSource("A")).self,
                "VIP", RuleSource("B")).self }

InitEval ==
    /\ rules \in {<<[name |-> "c", conditions |-> c, add_labels |-> <<>>,
                     exclude_labels |-> <<>>, terminate |-> FALSE]>> :
                  c \in ConditionPool}
    /\ inbox \in {<<e>> : e \in EmailPool}
    /\ pc = "rules"
    /\ dry_run = FALSE
    /\ emails = inbox
    /\ idx = 1
    /\ ridx = 1
    /\ aidx = 0
    /\ decisions \in EvalLedgers
    /\ terminated = FALSE
    /\ labels = <<>>
    /\ stats = [NewStats EXCEPT !.processed = 1]
    /\ log = <<>>
    /\ outcomes = <<>>
    /\ calls = <<>>
    /\ first_run = NoFirstRun

NextEval == RuleStep

SpecEval == InitEval /\ [][NextEval]_vars

-----------------------------------------------------------------------------
(* Properties.                                                             *)

\* the log entries of message m
EventsOf(m) == SelectSeq(log, LAMBDA e : e.msg = m)

\* the labels apply_label was called with for message m, in call order
AppliedLabels(m) ==
    LET es == SelectSeq(log, LAMBDA e : e.msg = m /\ e.ev = "apply")
    IN [i \in 1..Len(es) |-> es[i].label]

\* message m has been counted
Counted(m) == m <= Len(outcomes)

\* message m is the one being processed
Current(m) == m = idx /\ pc \in {"rules", "classify", "apply", "sources"}

\* log entry e records a match of a rule that asks for termination
TerminatingMatch(e) ==
    e.ev = "rule" /\ e.res = "true" /\ rules[e.rule].terminate

\* the rules at positions 1..k, as provenance values
RuleSourcesUpTo(k) == {RuleSource(rules[j].name) : j \in 1..k}

\* C1: once a rule with terminate=true has matched for a message, the log of
\* that message holds no later rule evaluation and no classifier call at all
\* (only label-apply calls follow), and every decision of the message's
\* ledger comes from the terminating rule or a rule before it.
C1_TerminationLaw ==
    \A i \in 1..Len(log) :
        TerminatingMatch(log[i]) =>
            LET m == log[i].msg
            IN /\ \A j \in 1..Len(log) :
                     (j > i /\ log[j].msg = m) => log[j].ev = "apply"
               /\ \A j \in 1..Len(log) : log[j].msg = m => log[j].ev # "llm"
               /\ Current(m) =>
                     \A l \in DOMAIN decisions.sources :
                         decisions.sources[l] \in RuleSourcesUpTo(log[i].rule)
               /\ Counted(m) =>
                     \A l \in DOMAIN outcomes[m].label_sources :
                         outcomes[m].label_sources[l] \in RuleSourcesUpTo(log[i].rule)

\* a batch has finished in which a terminating rule matched ahead of another
\* rule and the message's labels were applied
C1_Witness ==
    /\ pc = "done"
    /\ \E i \in 1..Len(log) :
          /\ TerminatingMatch(log[i])
          /\ log[i].rule < Len(rules)
          /\ outcomes[log[i].msg].status = "ok"
          /\ AppliedLabels(log[i].msg) # <<>>

\* log entry e records an answer of the classifier naming a label the ledger
\* held in exclude state
ExcludedSuggestion(e) == e.ev = "llm" /\ e.res = "ok" /\ e.prev = EXCLUDE

\* C2: when the classifier returns a label that the ledger holds in exclude
\* state, the label stays excluded, is not among the final labels and
\* apply_label is never called with it for that message.
C2_ExcludeBeatsModel ==
    \A i \in 1..Len(log) :
        ExcludedSuggestion(log[i]) =>
            LET m == log[i].msg
                L == log[i].label
            IN /\ L \notin Range(AppliedLabels(m))
               /\ Current(m) =>
                     /\ is_excluded(decisions, L)
                     /\ L \notin Range(labels)
               /\ Counted(m) =>
                     /\ L \notin Range(outcomes[m].final_labels)
                     /\ [label |-> L, state |-> EXCLUDE] \in Range(outcomes[m].ledger)

\* a message was finished in normal mode after the classifier suggested a
\* label a rule had excluded
C2_Witness ==
    /\ ~dry_run
    /\ \E i \in 1..Len(log) :
          /\ ExcludedSuggestion(log[i])
          /\ Counted(log[i].msg)

\* the ledger as the n-th decide call left it
After(n) == IF n = Len(calls) THEN decisions ELSE calls[n + 1].before

C4_Idempotence ==
    \A n \in 1..Len(calls) :
        DecisionOf(calls[n].before, calls[n].label) = calls[n].state =>
            /\ ~calls[n].raised
            /\ After(n) = calls[n].before

\* a rule's add of a label followed by the model's add of the same label, on
\* a ledger that holds another label as well
C4_Witness ==
    \E n \in 2..Len(calls) :
        /\ calls[n].state = ADD /\ calls[n].source = LlmSource
        /\ DecisionOf(calls[n].before, calls[n].label) = ADD
        /\ calls[n].before.sources[calls[n].label] = RuleSource("A")
        /\ Len(calls[n].before.decisions) = 2
        /\ calls[n].before.decisions[1].label = calls[n].label

\* the label is in the known valid set of the ledger
InKnownSet(self, label) ==
    ~self.valid_labels.is_none /\ label \in self.valid_labels.v

\* the ledger has a validator and it accepts the label
AcceptedByValidator(self, label) ==
    ~self.label_validator.is_none /\ label \in self.label_validator.v

\* C5: a decide (add or exclude) on a label that is neither in the valid set
\* nor accepted by the validator raises and leaves the ledger exactly as it
\* was: no entry and no provenance for the label, every other label as before.
C5_InvalidLabelRejected ==
    \A n \in 1..Len(calls) :
        LET c == calls[n]
        IN (~InKnownSet(c.before, c.label) /\ ~AcceptedByValidator(c.before, c.label)) =>
              /\ c.raised
              /\ After(n) = c.before
              /\ DecisionOf(After(n), c.label) = NONE
              /\ c.label \notin DOMAIN After(n).sources

\* an invalid label is refused by a ledger that already holds a decision
C5_Witness ==
    \E n \in 2..Len(calls) :
        /\ calls[n].raised
        /\ calls[n].before.decisions # <<>>
        /\ ~calls[n - 1].raised

\* neither the label catalog nor the provider knows the label
UnknownLabel(l) == l \notin valid_labels /\ l \notin GmailLabels

\* log entry e records a decide on an unknown label: a matched rule that
\* names one among its actions, or an answer of the classifier that is one
ValidationError(e) ==
    \/ /\ e.ev = "rule"
       /\ e.res \in {"true", "error"}
       /\ \E l \in Range(rules[e.rule].add_labels) \cup Range(rules[e.rule].exclude_labels) :
             UnknownLabel(l)
    \/ /\ e.ev = "llm"
       /\ e.res = "ok"
       /\ UnknownLabel(e.label)

\* every message fetched has been counted when run returns
AllProcessed ==
    pc = "done" => stats.processed = Len(emails) /\ Len(outcomes) = Len(emails)

\* C6: a decide on an unknown label, by a rule action or by the model's
\* suggestion, ends the processing of that message only: the message is
\* counted as failed at once, apply_label is never called for it (labels
\* decided before the error included), run does not raise, and when run
\* returns every message of the batch has been processed.
C6_ValidationErrorAbortsMessageOnly ==
    /\ \A i \in 1..Len(log) :
          ValidationError(log[i]) =>
              LET m == log[i].msg
              IN /\ Counted(m)
                 /\ outcomes[m].status = "failed"
                 /\ AppliedLabels(m) = <<>>
                 /\ \A j \in 1..Len(log) : j > i => log[j].msg # m
                 /\ pc # "raised"
    /\ AllProcessed

\* the first message failed on an unknown label after a valid label had been
\* decided for it, and the second message went on to have a label applied
C6_Witness ==
    /\ pc = "done"
    /\ Len(emails) = 2
    /\ \E i \in 1..Len(log) : ValidationError(log[i]) /\ log[i].msg = 1
    /\ outcomes[1].ledger # <<>>
    /\ outcomes[2].status = "ok"
    /\ AppliedLabels(2) # <<>>

\* the number of counted messages with the given status
CountOf(status) ==
    Cardinality({m \in 1..Len(outcomes) : outcomes[m].status = status})

\* the final labels of message m that the message does not carry yet
LabelsToApply(m) ==
    SelectSeq(outcomes[m].final_labels,
              LAMBDA l : l \notin emails[m].existing_labels)

\* C7: when the classifier call raises for a message, that message is counted
\* as failed and run goes on; succeeded and failed always count the messages
\* that returned and that raised, so earlier messages keep their count, and
\* in normal mode a message counted as succeeded has had its labels applied
\* by then; with two messages of which the second fails in the classifier
\* run returns processed=2, succeeded=1, failed=1.
C7_ClassifierFailureIsPerMessage ==
    /\ \A i \in 1..Len(log) :
          (log[i].ev = "llm" /\ log[i].res = "raise") =>
              /\ Counted(log[i].msg)
              /\ outcomes[log[i].msg].status = "failed"
              /\ pc # "raised"
    /\ stats.succeeded = CountOf("ok")
    /\ stats.failed = CountOf("failed")
    /\ \A m \in 1..Len(outcomes) :
          (outcomes[m].status = "ok" /\ ~dry_run) =>
              Range(LabelsToApply(m)) \subseteq Range(AppliedLabels(m))
    /\ AllProcessed
    /\ (/\ pc = "done"
        /\ Len(emails) = 2
        /\ outcomes[1].status = "ok"
        /\ \E i \in 1..Len(log) :
              log[i].ev = "llm" /\ log[i].res = "raise" /\ log[i].msg = 2)
       => (stats.processed = 2 /\ stats.succeeded = 1 /\ stats.failed = 1)

\* two messages: the first had a label applied and succeeded, the classifier
\* raised for the second
C7_Witness ==
    /\ pc = "done"
    /\ Len(emails) = 2
    /\ outcomes[1].status = "ok"
    /\ AppliedLabels(1) # <<>>
    /\ \E i \in 1..Len(log) :
          log[i].ev = "llm" /\ log[i].res = "raise" /\ log[i].msg = 2

\* log entry e records a collaborator call made for a message that raised
CollaboratorRaise(e) == e.ev \in {"llm", "apply"} /\ e.res = "raise"

\* C8 as stated: no raise of a collaborator call made during a batch run,
\* the mail fetch included, propagates out of run.
C8_NoCollaboratorRaisePropagates == pc # "raised"

\* C8 amended: a raise of classify_email or apply_label is caught at the
\* per-message boundary: the message is counted as failed, run does not
\* raise and every message is processed by the time run returns; run raises
\* only when the mail fetch raised, before any message was processed.
C8_PerMessageRaisesAreCaught ==
    /\ \A i \in 1..Len(log) :
          CollaboratorRaise(log[i]) =>
              /\ Counted(log[i].msg)
              /\ outcomes[log[i].msg].status = "failed"
              /\ pc # "raised"
    /\ pc = "raised" => (log = <<>> /\ outcomes = <<>> /\ stats.processed = 0)
    /\ AllProcessed

\* apply_label raised for the first message and the second was processed
C8_Witness ==
    /\ pc = "done"
    /\ Len(emails) = 2
    /\ \E i \in 1..Len(log) :
          log[i].ev = "apply" /\ log[i].res = "raise" /\ log[i].msg = 1
    /\ outcomes[2].status = "ok"

\* C9: apply_label is never called with a label the message already carries,
\* and for a message that succeeded in normal mode it was called with exactly
\* the final labels the message did not carry, each once, in their order.
C9_ApplyOnce ==
    /\ \A i \in 1..Len(log) :
          log[i].ev = "apply" =>
              log[i].label \notin emails[log[i].msg].existing_labels
    /\ \A m \in 1..Len(outcomes) :
          (outcomes[m].status = "ok" /\ ~dry_run) =>
              AppliedLabels(m) = LabelsToApply(m)

\* a message succeeded in normal mode with a final label it already carried
\* and another it did not
C9_Witness ==
    /\ ~dry_run
    /\ \E m \in 1..Len(outcomes) :
          /\ outcomes[m].status = "ok"
          /\ \E l \in Range(outcomes[m].final_labels) : l \in emails[m].existing_labels
          /\ AppliedLabels(m) # <<>>

\* both runs of a pair have returned
PairDone == pc = "done" /\ first_run.set

\* the run of the pair made in dry-run mode, and the one made in normal mode
ThisRun == [dry_run |-> dry_run, stats |-> stats, outcomes |-> outcomes, log |-> log]
DryRun == IF dry_run THEN ThisRun ELSE first_run
NormalRun == IF dry_run THEN first_run ELSE ThisRun

\* apply_label raised for message m in the given run
ApplyRaised(run, m) ==
    \E i \in 1..Len(run.log) :
        run.log[i].msg = m /\ run.log[i].ev = "apply" /\ run.log[i].res = "raise"

\* C10 as stated: the success and failure counts of a dry run equal those of
\* the normal-mode run over the same messages, rules and classifier answers.
C10_SameCountsInBothModes == PairDone => stats = first_run.stats

\* C10 amended: a dry run never calls apply_label; over the same messages,
\* rules and classifier answers the ledger of every message is the same in
\* both modes, and so are the outcome (final labels, sources, status) of every
\* message for which apply_label did not raise in the normal run, and the
\* counts when it raised for none; a message for which it raised is failed in
\* the normal run and succeeded in the dry run.
C10_DryRunSkipsOnlyApply ==
    /\ dry_run => \A i \in 1..Len(log) : log[i].ev # "apply"
    /\ PairDone =>
          /\ Len(DryRun.outcomes) = Len(NormalRun.outcomes)
          /\ \A m \in 1..Len(DryRun.outcomes) :
                /\ DryRun.outcomes[m].ledger = NormalRun.outcomes[m].ledger
                /\ IF ApplyRaised(NormalRun, m)
                   THEN /\ NormalRun.outcomes[m].status = "failed"
                        /\ DryRun.outcomes[m].status = "ok"
                   ELSE DryRun.outcomes[m] = NormalRun.outcomes[m]
          /\ (\A m \in 1..Len(NormalRun.outcomes) : ~ApplyRaised(NormalRun, m))
                => DryRun.stats = NormalRun.stats

\* a dry run that decided labels to add, and a normal run over the same
\* messages that applied them
C10_Witness ==
    /\ PairDone
    /\ \E m \in 1..Len(DryRun.outcomes) :
          /\ DryRun.outcomes[m].status = "ok"
          /\ DryRun.outcomes[m].final_labels # <<>>
          /\ \E i \in 1..Len(NormalRun.log) :
                /\ NormalRun.log[i].msg = m
                /\ NormalRun.log[i].ev = "apply"
                /\ NormalRun.log[i].res = "ok"

\* the positions of the classifier calls made for message m
LlmCalls(m) == {i \in 1..Len(log) : log[i].msg = m /\ log[i].ev = "llm"}

\* the positions of the rule evaluations made for message m
RuleEvals(m) == {i \in 1..Len(log) : log[i].msg = m /\ log[i].ev = "rule"}

\* every rule has been evaluated for message m, none raised and none that
\* matched asked for termination
RulesCompleted(m) ==
    /\ Cardinality(RuleEvals(m)) = Len(rules)
    /\ \A i \in RuleEvals(m) :
          log[i].res \in {"true", "false"} /\ ~TerminatingMatch(log[i])

\* message m is past the point of _process_email where the classifier is called
PastClassify(m) == Counted(m) \/ (m = idx /\ pc \in {"apply", "sources"})

Changed(before, after) ==
    {l \in Labels : DecisionOf(before, l) # DecisionOf(after, l)}

\* C12: the step that calls the classifier and reconciles its answer changes
\* the state of at most one label, the one the classifier returned, and only
\* from undecided to add: every entry the rules left in the ledger is still
\* there, at its place and with its state, after the step.
C12_ModelStepKeepsRuleDecisions ==
    [][pc = "classify" =>
          /\ \A l \in Changed(decisions, decisions') :
                /\ DecisionOf(decisions, l) = NONE
                /\ DecisionOf(decisions', l) = ADD
                /\ log'[Len(log')].ev = "llm"
                /\ log'[Len(log')].label = l
          /\ Cardinality(Changed(decisions, decisions')) <= 1
          /\ Len(decisions'.decisions) >= Len(decisions.decisions)
          /\ SubSeq(decisions'.decisions, 1, Len(decisions.decisions))
                = decisions.decisions]_vars

\* the classifier's label was added to a ledger in which the rules had left a
\* label in add state and another in exclude state
C12_Witness ==
    \E i \in 1..Len(log) :
        /\ log[i].ev = "llm" /\ log[i].res = "ok" /\ log[i].prev = NONE
        /\ Counted(log[i].msg)
        /\ LET o == outcomes[log[i].msg]
           IN /\ o.status = "ok"
              /\ log[i].label \in Range(o.final_labels)
              /\ Len(o.final_labels) >= 2
              /\ \E e \in Range(o.ledger) : e.state = EXCLUDE

\* the stage of _process_email a log entry belongs to
Stage(e) == CASE e.ev = "rule" -> 1 [] e.ev = "llm" -> 2 [] e.ev = "apply" -> 3

\* C13: the messages of a batch are processed one after another: a step of a
\* message is made only when every earlier message has been counted, so the
\* log is ordered by message and, within a message, by stage (rules, then the
\* classifier, then apply_label); a message that succeeded in normal mode had
\* all its labels applied before it was counted, hence before any step of a
\* later message.
C13_OneMessageAtATime ==
    /\ \A i, j \in 1..Len(log) :
          i < j =>
              /\ log[i].msg <= log[j].msg
              /\ log[i].msg = log[j].msg => Stage(log[i]) <= Stage(log[j])
    /\ \A i \in 1..Len(log) :
          \/ Counted(log[i].msg)
          \/ log[i].msg = Len(outcomes) + 1 /\ Current(log[i].msg)
    /\ pc \in {"loop", "rules", "classify", "apply", "sources"}
          => Len(outcomes) = idx - 1
    /\ \A m \in 1..Len(outcomes) :
          (outcomes[m].status = "ok" /\ ~dry_run) =>
              /\ AppliedLabels(m) = LabelsToApply(m)
              /\ \A i, j \in 1..Len(log) :
                    (log[i].msg = m /\ log[j].msg > m) => i < j

\* the first message went through the rules, the classifier and apply_label
\* and succeeded; the second was started after that and failed
C13_Witness ==
    /\ pc = "done"
    /\ Len(outcomes) = 2
    /\ outcomes[1].status = "ok"
    /\ RuleEvals(1) # {} /\ LlmCalls(1) # {} /\ AppliedLabels(1) # <<>>
    /\ outcomes[2].status = "failed"
    /\ EventsOf(2) # <<>>

\* the condition of the rule is a sender leaf whose spec is not a mapping
UnsupportedSenderLeaf(rule) ==
    /\ rule.conditions.py = "dict"
    /\ HasKey(rule.conditions, "sender")
    /\ rule.conditions.v["sender"].py # "dict"

\* C14 as stated: evaluating a condition never raises; a rule whose condition
\* is a leaf of unsupported shape (a sender leaf whose spec is a string)
\* evaluates to false, and the message goes on to the next rule.
C14_UnsupportedShapeIsFalse ==
    \A i \in 1..Len(log) :
        log[i].ev = "rule" =>
            /\ log[i].res # "raise"
            /\ UnsupportedSenderLeaf(rules[log[i].rule]) => log[i].res = "false"

\* the evaluation of a sender leaf whose spec is a string raised for a
\* message: the message was counted as failed, the rule after it was never
\* evaluated and the classifier was not called
C14_Witness ==
    \E i \in 1..Len(log) :
        /\ log[i].ev = "rule" /\ log[i].res = "raise"
        /\ UnsupportedSenderLeaf(rules[log[i].rule])
        /\ log[i].rule < Len(rules)
        /\ Counted(log[i].msg)
        /\ outcomes[log[i].msg].status = "failed"
        /\ \A j \in 1..Len(log) : (j > i) => log[j].msg # log[i].msg

\* the rule has no condition: `when` is absent (None) or empty
Unconditional(rule) == ~Truthy(rule.conditions)

\* C15: a rule with no condition (None or an empty mapping) matches every
\* message that reaches it: its evaluation is never false and never raises,
\* its decide calls are made (they fail only on an unknown label), and right
\* after it the ledger holds its add labels in add state and its exclude
\* labels in exclude state.
C15_NoConditionMatchesAll ==
    \A i \in 1..Len(log) :
        (log[i].ev = "rule" /\ Unconditional(rules[log[i].rule])) =>
            LET rule == rules[log[i].rule]
            IN /\ log[i].res \in {"true", "error"}
               /\ log[i].res = "error" =>
                     \E l \in Range(rule.add_labels) \cup Range(rule.exclude_labels) :
                         UnknownLabel(l)
               /\ (log[i].res = "true" /\ i = Len(log) /\ Current(log[i].msg)) =>
                     /\ \A l \in Range(rule.exclude_labels) :
                           DecisionOf(decisions, l) = EXCLUDE
                     /\ \A l \in Range(rule.add_labels) \ Range(rule.exclude_labels) :
                           DecisionOf(decisions, l) = ADD

\* a rule whose condition is None and a rule whose condition is an empty
\* mapping both matched for the same message, which succeeded
C15_Witness ==
    \E i, j \in 1..Len(log) :
        /\ log[i].msg = log[j].msg
        /\ log[i].ev = "rule" /\ log[j].ev = "rule"
        /\ rules[log[i].rule].conditions = PyDict(<<>>)
        /\ rules[log[j].rule].conditions = PyNone
        /\ log[i].res = "true" /\ log[j].res = "true"
        /\ Counted(log[i].msg)
        /\ outcomes[log[i].msg].status = "ok"
        /\ Len(outcomes[log[i].msg].ledger) = 2

\* the positions in the rule list of the rules that matched for message m
\* and whose actions were applied
MatchedRules(m) ==
    {log[i].rule : i \in {j \in RuleEvals(m) : log[j].res = "true"}}

\* the last matched rule of message m that excludes label l (0 when none)
LastExcluder(m, l) ==
    LET ks == {k \in MatchedRules(m) : l \in Range(rules[k].exclude_labels)}
    IN IF ks = {} THEN 0 ELSE CHOOSE k \in ks : \A k2 \in ks : k2 <= k

\* the matched rules of message m that add label l after its last exclusion
Adders(m, l) ==
    {k \in MatchedRules(m) :
        k > LastExcluder(m, l) /\ l \in Range(rules[k].add_labels)}

\* the source whose decision put label l of message m into add state: the
\* first rule that added it after its last exclusion, else the classifier
DecidingSource(m, l) ==
    IF Adders(m, l) = {} THEN LlmSource
    ELSE RuleSource(rules[CHOOSE k \in Adders(m, l) :
                              \A k2 \in Adders(m, l) : k <= k2].name)

email_groups == [vip |-> {VipAddr}, team |-> {Me}]

\* the group names a sender leaf lists under the given operator
GroupNames(rule, op) ==
    LET spec == rule.conditions.v["sender"]
    IN IF HasKey(spec, op) THEN Range(spec.v[op].v) ELSE {}

\* the rule's condition is a sender leaf with nothing but the given group operator
GroupLeaf(rule, op) ==
    /\ rule.conditions.py = "dict"
    /\ DOMAIN rule.conditions.v = {"sender"}
    /\ rule.conditions.v["sender"].py = "dict"
    /\ DOMAIN rule.conditions.v["sender"].v = {op}

\* the address belongs to one of the named groups
InSomeGroup(address, names) ==
    \E g \in names \cap DOMAIN email_groups : Lower(address) \in email_groups[g]

\* C17 as stated: a sender leaf with groups_any (every group defined) matches
\* iff the sender belongs to one of the named groups; a sender leaf with
\* groups_not_any does not match when the sender belongs to one of them; the
\* rule that matched has its labels added and does not end the run.
C17_GroupLeafMatchesMembersOnly ==
    \A i \in 1..Len(log) :
        log[i].ev = "rule" =>
            LET rule == rules[log[i].rule]
                sender == emails[log[i].msg].sender
            IN /\ (GroupLeaf(rule, "groups_any")
                   /\ GroupNames(rule, "groups_any") \subseteq DOMAIN email_groups)
                     => (log[i].res = "true"
                           <=> InSomeGroup(sender, GroupNames(rule, "groups_any")))
               /\ (GroupLeaf(rule, "groups_not_any")
                   /\ InSomeGroup(sender, GroupNames(rule, "groups_not_any")))
                     => log[i].res = "false"

\* a rule whose sender leaf is groups_not_any matched for a sender of the
\* named group and its label was added
C17_Witness ==
    \E i \in 1..Len(log) :
        /\ log[i].ev = "rule" /\ log[i].res = "true"
        /\ GroupLeaf(rules[log[i].rule], "groups_not_any")
        /\ InSomeGroup(emails[log[i].msg].sender,
                       GroupNames(rules[log[i].rule], "groups_not_any"))
        /\ i = Len(log)
        /\ \A l \in Range(rules[log[i].rule].add_labels) : DecisionOf(decisions, l) = ADD

\* the rule's condition is a sender leaf that names a group nobody defined
UnknownGroupRef(rule) ==
    /\ rule.conditions.py = "dict"
    /\ HasKey(rule.conditions, "sender")
    /\ rule.conditions.v["sender"].py = "dict"
    /\ (GroupNames(rule, "groups_any") \cup GroupNames(rule, "groups_not_any"))
          \ DOMAIN email_groups # {}

\* C18 as stated: evaluating a rule whose sender leaf names an undefined
\* email group raises (ValueError, "unknown email group"): the rule neither
\* matches nor fails to match, and it makes no label decision.
C18_UnknownGroupRaises ==
    \A i \in 1..Len(log) :
        (log[i].ev = "rule" /\ UnknownGroupRef(rules[log[i].rule])) =>
            log[i].res = "raise"

\* a rule naming an undefined group matched and its label is in the ledger
\* with the rule as its source
C18_Witness ==
    \E i \in 1..Len(log) :
        /\ log[i].ev = "rule" /\ log[i].res = "true"
        /\ UnknownGroupRef(rules[log[i].rule])
        /\ i = Len(log)
        /\ \E l \in Range(rules[log[i].rule].add_labels) :
              /\ DecisionOf(decisions, l) = ADD
              /\ decisions.sources[l] = RuleSource(rules[log[i].rule].name)

\* the matched rules of message m that name label l among their actions
Mentioning(m, l) ==
    {k \in MatchedRules(m) :
        l \in Range(rules[k].add_labels) \cup Range(rules[k].exclude_labels)}

\* the last action on label l in the sequence of the matched rules of message
\* m taken in declared order, the adds of a rule before its excludes
LastAction(m, l) ==
    IF Mentioning(m, l) = {} THEN NONE
    ELSE LET k == CHOOSE k1 \in Mentioning(m, l) : \A k2 \in Mentioning(m, l) : k2 <= k1
         IN IF l \in Range(rules[k].exclude_labels) THEN EXCLUDE ELSE ADD

\* message m is being processed and the classifier has not been called for it
InRules(m) == Current(m) /\ LlmCalls(m) = {}

\* C19: while and after the rule engine runs on a message, the state of every
\* label is the last action applied to it by the rules matched so far, in
\* declared order (within a rule the adds, then the excludes): a later add
\* overrides an earlier exclude and conversely, and a label no matched rule
\* names is undecided.
C19_LastMatchedActionWins ==
    InRules(idx) =>
        \A l \in Labels : DecisionOf(decisions, l) = LastAction(idx, l)

\* the engine has run over two matched rules, the second adding a label the
\* first had excluded, with a label no rule named left undecided
C19_Witness ==
    /\ pc = "classify"
    /\ \E l \in Labels :
          /\ DecisionOf(decisions, l) = ADD
          /\ LastExcluder(idx, l) > 0
    /\ \E l \in Labels : Mentioning(idx, l) = {} /\ DecisionOf(decisions, l) = NONE

\* the labels a rule lists both in add_labels and in exclude_labels
AddedAndExcluded(rule) == Range(rule.add_labels) \cap Range(rule.exclude_labels)

\* C20: right after a matching rule that lists a label both in add_labels and
\* in exclude_labels, that label is in exclude state (the add is made first,
\* the exclude second and wins) and is not among pending_additions(), while
\* the labels the rule only adds are in add state.
C20_ExcludeAfterAddInOneRule ==
    \A i \in 1..Len(log) :
        (/\ log[i].ev = "rule" /\ log[i].res = "true"
         /\ i = Len(log) /\ Current(log[i].msg)) =>
            LET rule == rules[log[i].rule]
            IN /\ \A l \in AddedAndExcluded(rule) :
                     /\ DecisionOf(decisions, l) = EXCLUDE
                     /\ l \notin Range(pending_additions(decisions))
                     /\ l \in excluded_labels(decisions)
               /\ \A l \in Range(rule.add_labels) \ Range(rule.exclude_labels) :
                     l \in Range(pending_additions(decisions))

\* a rule that lists a label in both lists, and another label only in
\* add_labels, has just matched
C20_Witness ==
    \E i \in 1..Len(log) :
        /\ log[i].ev = "rule" /\ log[i].res = "true"
        /\ i = Len(log) /\ Current(log[i].msg)
        /\ AddedAndExcluded(rules[log[i].rule]) # {}
        /\ AddedAndExcluded(rules[log[i].rule]) \subseteq excluded_labels(decisions)
        /\ pending_additions(decisions) # <<>>

\* the state of label l after the actions of the matched rules of message m
\* that stand before position k in the rule list
LastActionBefore(m, k, l) ==
    LET ks == {k1 \in Mentioning(m, l) : k1 < k}
    IN IF ks = {} THEN NONE
       ELSE LET k0 == CHOOSE k1 \in ks : \A k2 \in ks : k2 <= k1
            IN IF l \in Range(rules[k0].exclude_labels) THEN EXCLUDE ELSE ADD

\* the labels in the given state when rule k of message m is evaluated
InStateBefore(m, k, st) == {l \in Labels : LastActionBefore(m, k, l) = st}

\* the rule's condition is a single leaf on the given attribute
LeafOn(rule, key) ==
    rule.conditions.py = "dict" /\ DOMAIN rule.conditions.v = {key}

\* C21: when rule k is evaluated for a message, a decided_labels leaf is
\* matched against exactly the labels that the actions of the matched rules
\* 1..k-1 left in add state, and an excluded_labels leaf against exactly
\* those they left in exclude state: a label added and later excluded is not
\* among the decided ones, and the actions of rule k itself are not seen.
C21_LeavesSeeEarlierRulesOnly ==
    \A i \in 1..Len(log) :
        log[i].ev = "rule" =>
            LET rule == rules[log[i].rule]
                m == log[i].msg
                k == log[i].rule
            IN /\ LeafOn(rule, "decided_labels") =>
                     (log[i].res = "true"
                        <=> _match_label_sets(rule.conditions.v["decided_labels"],
                                              InStateBefore(m, k, ADD)) = Yes)
               /\ LeafOn(rule, "excluded_labels") =>
                     (log[i].res = "true"
                        <=> _match_label_sets(rule.conditions.v["excluded_labels"],
                                              InStateBefore(m, k, EXCLUDE)) = Yes)

\* a label was added by the first rule and excluded by the second; the third
\* rule's decided_labels leaf on that label then evaluated to false
C21_Witness ==
    \E i \in 1..Len(log) :
        /\ log[i].ev = "rule" /\ log[i].res = "false" /\ log[i].rule = 3
        /\ LeafOn(rules[3], "decided_labels")
        /\ \E l \in Range(rules[1].add_labels) :
              /\ l \in Range(rules[2].exclude_labels)
              /\ l \in Range(rules[3].conditions.v["decided_labels"].v["has_any"].v)
              /\ MatchedRules(log[i].msg) = {1, 2}

\* the condition under evaluation, its context and its result
EvalCondition == rules[1].conditions
EvalContext == RuleContext(emails[1], decisions, user_addresses, primary_email)
Evaluated == Len(log) >= 1 /\ log[1].ev = "rule"
EvalResult == log[1].res

\* the kind of a node, by the key _evaluate_condition reads
IsAll(c) == c.py = "dict" /\ HasKey(c, "all")
IsAny(c) == c.py = "dict" /\ ~HasKey(c, "all") /\ HasKey(c, "any")
IsNot(c) ==
    c.py = "dict" /\ ~HasKey(c, "all") /\ ~HasKey(c, "any") /\ HasKey(c, "not")

\* the child evaluates to true, resp. to false, in the context
ChildTrue(c) == _evaluate_condition(c, EvalContext) = Yes
ChildFalse(c) == _evaluate_condition(c, EvalContext) = No

\* C22 as stated: an all node is true iff every child evaluates true (true
\* for no child), an any node iff at least one child evaluates true (false
\* for no child), a not node iff its child evaluates false; the evaluation
\* leaves the ledger as it was.
C22_ConnectivesAreTruthFunctions ==
    Evaluated =>
        LET c == EvalCondition
        IN /\ IsAll(c) =>
                 (EvalResult = "true" <=> \A ch \in Range(c.v["all"].v) : ChildTrue(ch))
           /\ IsAny(c) =>
                 (EvalResult = "true" <=> \E ch \in Range(c.v["any"].v) : ChildTrue(ch))
           /\ IsNot(c) =>
                 (EvalResult = "true" <=> ChildFalse(c.v["not"]))
           /\ decisions \in EvalLedgers

\* an any node one of whose children evaluates true was evaluated and raised
C22_Witness ==
    /\ Evaluated
    /\ IsAny(EvalCondition)
    /\ \E ch \in Range(EvalCondition.v["any"].v) : ChildTrue(ch)
    /\ EvalResult = "raise"

\* the keys _evaluate_condition is documented to read
RecognisedKeys ==
    {"all", "any", "not", "sender", "subject", "body", "content", "snippet",
     "recipients", "existing_labels", "decided_labels", "excluded_labels"}

\* the operators documented for the leaf on the given key
DocumentedOps(key) ==
    CASE key = "sender" -> {"in", "not_in", "domains", "domains_not", "contains"}
      [] key \in {"subject", "body", "content", "snippet"} ->
            {"contains_all", "contains_any", "not_contains", "starts_with",
             "ends_with", "equals_any"}
      [] key = "recipients" ->
            {"only_me", "not_on_to", "cc_me", "to_me", "total_more_than",
             "total_less_than", "includes_any", "includes_domains",
             "contains_mailing_list", "mailing_list_patterns", "all_internal",
             "any_external", "sender_in_recipients"}
      [] key \in {"existing_labels", "decided_labels", "excluded_labels"} ->
            {"has_any", "has_all", "missing_all"}
      [] OTHER -> {}

\* a structure the evaluator does not recognise: a truthy value that is not a
\* mapping, a non-empty node with no recognised key, or a leaf whose spec is a
\* non-empty mapping with no documented operator
Unrecognised(c) ==
    /\ Truthy(c)
    /\ \/ c.py # "dict"
       \/ c.py = "dict" /\ DOMAIN c.v \cap RecognisedKeys = {}
       \/ /\ c.py = "dict"
          /\ \E key \in RecognisedKeys \ {"all", "any", "not"} :
                /\ DOMAIN c.v = {key}
                /\ c.v[key].py = "dict"
                /\ Truthy(c.v[key])
                /\ DOMAIN c.v[key].v \cap DocumentedOps(key) = {}

\* C23 as stated: a structure the evaluator does not recognise evaluates to
\* false, never to true.
C23_FailClosed ==
    (Evaluated /\ Unrecognised(EvalCondition)) => EvalResult = "false"

\* a sender leaf whose spec names only an operator that does not exist
\* evaluated to true
C23_Witness ==
    /\ Evaluated
    /\ Unrecognised(EvalCondition)
    /\ LeafOn(rules[1], "sender")
    /\ EvalResult = "true"

\* the keys of a node in the order _evaluate_condition looks for them; body
\* and content are one place
Precedence ==
    << {"all"}, {"any"}, {"not"}, {"sender"}, {"subject"}, {"body", "content"},
       {"snippet"}, {"recipients"}, {"existing_labels"}, {"decided_labels"},
       {"excluded_labels"} >>

\* the keys of node c that determine its result: those of the first place of
\* Precedence the node has a key of
DeterminingKeys(c) ==
    LET places == {i \in 1..Len(Precedence) : Precedence[i] \cap DOMAIN c.v # {}}
        first == CHOOSE i \in places : \A j \in places : i <= j
    IN Precedence[first] \cap DOMAIN c.v

\* node c without the keys that do not determine its result
Restricted(c) == PyDict([k \in DeterminingKeys(c) |-> c.v[k]])

\* the node carries recognised keys of more than one place of Precedence
MultiKey(c) ==
    /\ c.py = "dict"
    /\ Cardinality({i \in 1..Len(Precedence) : Precedence[i] \cap DOMAIN c.v # {}}) > 1

\* C24: the result of a node with several recognised keys is the result of
\* the node reduced to the first of its keys in the order all, any, not,
\* sender, subject, body/content, snippet, recipients, existing_labels,
\* decided_labels, excluded_labels: the other keys have no effect.
C24_OneKeyByPrecedence ==
    (Evaluated /\ MultiKey(EvalCondition)) =>
        EvalResult = _evaluate_condition(Restricted(EvalCondition), EvalContext)

\* a node with a sender key that matches and a subject key that does not was
\* evaluated to true
C24_Witness ==
    /\ Evaluated
    /\ DOMAIN EvalCondition.v = {"sender", "subject"}
    /\ _evaluate_condition(PyDict([subject |-> EvalCondition.v["subject"]]),
                           EvalContext) = No
    /\ EvalResult = "true"

\* C25: a decide is accepted iff the label is in the known valid set or the
\* validator returns true for it; the validator is called only for a label
\* that is not in the known set; a ledger with an empty or absent valid set
\* and no validator rejects every label.
C25_ValidSetOrValidator ==
    \A n \in 1..Len(calls) :
        LET c == calls[n]
        IN /\ ~c.raised <=> (InKnownSet(c.before, c.label)
                               \/ AcceptedByValidator(c.before, c.label))
           /\ c.consulted => ~InKnownSet(c.before, c.label)
           /\ (/\ c.before.valid_labels.is_none \/ c.before.valid_labels.v = {}
               /\ c.before.label_validator.is_none) => c.raised

\* on one ledger a label of the known set was accepted without the validator
\* being called, a label outside it was accepted by the validator, and a
\* label neither knows was rejected
C25_Witness ==
    \E i, j, k \in 1..Len(calls) :
        /\ ~calls[i].raised /\ ~calls[i].consulted
        /\ ~calls[j].raised /\ calls[j].consulted
        /\ calls[k].raised /\ calls[k].consulted

\* the position of label l in the action list of rule k (0 when absent)
ActionIndex(k, l) ==
    LET acts == ActionList(rules[k])
        ps == {i \in 1..Len(acts) : acts[i].label = l}
    IN IF ps = {} THEN 0 ELSE CHOOSE i \in ps : \A j \in ps : i <= j

\* when label l first entered the ledger of message m: the first matched rule
\* naming it and the place of l among that rule's actions; a label no matched
\* rule names enters with the classifier's suggestion, after every rule
EntryRank(m, l) ==
    IF Mentioning(m, l) = {} THEN (Len(rules) + 1) * (2 * Cardinality(Labels) + 1)
    ELSE LET k == CHOOSE k1 \in Mentioning(m, l) : \A k2 \in Mentioning(m, l) : k1 <= k2
         IN k * (2 * Cardinality(Labels) + 1) + ActionIndex(k, l)

\* the positions of the apply_label calls made for message m
ApplyCalls(m) == {i \in 1..Len(log) : log[i].msg = m /\ log[i].ev = "apply"}

\* C26: the apply_label calls of one message are made in the order in which
\* their labels first entered the ledger, so a label a rule added is applied
\* before a label that only the classifier's suggestion added.
C26_AppliedInEntryOrder ==
    \A m \in 1..Len(emails) :
        \A i, j \in ApplyCalls(m) :
            i < j =>
                /\ EntryRank(m, log[i].label) < EntryRank(m, log[j].label)
                /\ Mentioning(m, log[i].label) = {} => Mentioning(m, log[j].label) = {}

\* a message for which three labels were applied: one that entered the
\* ledger first, excluded, and was added after the second one was, then the
\* second one, then a label new from the classifier
C26_Witness ==
    \E m \in 1..Len(emails) :
        \E i, j, k \in ApplyCalls(m) :
            /\ i < j /\ j < k
            /\ log[i].res = "ok" /\ log[j].res = "ok" /\ log[k].res = "ok"
            /\ LastExcluder(m, log[i].label) # 0
            /\ \E r \in Adders(m, log[i].label) :
                  ActionIndex(r, log[j].label) \in 1..(ActionIndex(r, log[i].label) - 1)
            /\ Mentioning(m, log[k].label) = {}

\* the messages for which processing has begun
Begun == IF Current(idx) THEN idx ELSE Len(outcomes)

\* C27: once the messages are fetched, run reaches its return; all along,
\* processed counts the messages begun and succeeded + failed the messages
\* finished, one outcome each; on return processed is the number of fetched
\* messages and processed = succeeded + failed.
C27_RunReturns ==
    /\ (pc = "loop") ~> (pc = "done")
    /\ [](pc \in {"loop", "rules", "classify", "apply", "sources", "done"} =>
            /\ stats.processed = Begun
            /\ Len(outcomes) = CountOf("ok") + CountOf("failed")
            /\ stats.succeeded = CountOf("ok")
            /\ stats.failed = CountOf("failed")
            /\ Len(outcomes) = idx - 1)
    /\ [](pc = "done" =>
            /\ stats.processed = Len(emails)
            /\ Len(outcomes) = Len(emails)
            /\ stats.processed = stats.succeeded + stats.failed)

\* run has returned from a batch of two messages, one failed and one succeeded
C27_Witness ==
    /\ pc = "done"
    /\ Len(emails) = 2
    /\ stats.processed = 2
    /\ stats.succeeded = 1
    /\ stats.failed = 1

\* the labels that have an entry in the ledger
Decided(self) == {l \in Labels : DecisionOf(self, l) # NONE}

\* a decide on label l returned without raising
AcceptedCall(l) == \E n \in 1..Len(calls) : calls[n].label = l /\ ~calls[n].raised

\* C28: after any sequence of decide calls pending_additions() and
\* excluded_labels() are disjoint, final_labels() is pending_additions() (the
\* labels in add state, each once), every label with a decision was accepted
\* by the validation of a decide made for it, and no step takes a decided
\* label back to none.
C28_LedgerInvariants ==
    /\ [](/\ Range(pending_additions(decisions)) \cap excluded_labels(decisions) = {}
          /\ final_labels(decisions) = pending_additions(decisions)
          /\ Range(final_labels(decisions)) = {l \in Labels : DecisionOf(decisions, l) = ADD}
          /\ Len(final_labels(decisions)) = Cardinality(Range(final_labels(decisions)))
          /\ \A l \in Decided(decisions) :
                /\ AcceptedCall(l)
                /\ InKnownSet(decisions, l) \/ AcceptedByValidator(decisions, l))
    /\ [][Decided(decisions) \subseteq Decided(decisions')]_vars

\* a ledger holding an added and an excluded label after an accepted decide
\* overrode the state of a decided label
C28_Witness ==
    /\ pending_additions(decisions) # <<>>
    /\ excluded_labels(decisions) # {}
    /\ \E n \in 1..Len(calls) :
          /\ ~calls[n].raised
          /\ DecisionOf(calls[n].before, calls[n].label) \notin {NONE, calls[n].state}

\* the labels _apply_labels was to apply for message m: the labels in add
\* state of the ledger the message ended with, less those it carried already
ToApply(m) ==
    SelectSeq(LabelsInState(outcomes[m].ledger, ADD),
              LAMBDA l : l \notin emails[m].existing_labels)

\* the number of successfully processed messages that have l as a final label
OkWith(l) ==
    Cardinality({m \in 1..Len(outcomes) :
                    outcomes[m].status = "ok" /\ l \in Range(outcomes[m].final_labels)})

\* C29: when apply_label raises on the k-th label to apply for a message, the
\* log keeps the k-1 successful calls made before it and nothing undoes them,
\* no call is made for the remaining labels of the message, the message is
\* counted as failed, and the per-label counts are those of the successfully
\* processed messages alone.
C29_ApplyFailureKeepsEarlierLabels ==
    \A i \in 1..Len(log) :
        (log[i].ev = "apply" /\ log[i].res = "raise") =>
            LET m == log[i].msg
                k == Len(AppliedLabels(m))
            IN /\ Counted(m)
               /\ outcomes[m].status = "failed"
               /\ k <= Len(ToApply(m))
               /\ AppliedLabels(m) = SubSeq(ToApply(m), 1, k)
               /\ \A j \in ApplyCalls(m) : j # i => (j < i /\ log[j].res = "ok")
               /\ \A j \in 1..Len(log) : (j > i) => log[j].msg # m
               /\ stats.failed = CountOf("failed")
               /\ \A l \in DOMAIN stats.classifications :
                     stats.classifications[l] = OkWith(l)

\* apply_label raised on the second of three labels to apply: the first is
\* applied, the third was never attempted
C29_Witness ==
    \E i \in 1..Len(log) :
        /\ log[i].ev = "apply" /\ log[i].res = "raise"
        /\ Len(AppliedLabels(log[i].msg)) = 2
        /\ Len(ToApply(log[i].msg)) = 3
        /\ \E j \in 1..(i - 1) :
              log[j].msg = log[i].msg /\ log[j].ev = "apply" /\ log[j].res = "ok"

RECURSIVE RulesAlone(_, _, _)
\* the rules from position k on, run for message e on ledger self with no
\* other message in sight: how the engine ends and the ledger it leaves
RulesAlone(self, e, k) ==
    IF k > Len(rules) THEN [end |-> "completed", self |-> self]
    ELSE LET m == _rule_matches(rules[k],
                                RuleContext(e, self, user_addresses, primary_email))
             r == _apply_actions(rules[k], self)
         IN IF m = Raise THEN [end |-> "raised", self |-> self]
            ELSE IF m = No THEN RulesAlone(self, e, k + 1)
            ELSE IF r.raised THEN [end |-> "raised", self |-> r.self]
            ELSE IF Terminates(rules[k]) THEN [end |-> "terminated", self |-> r.self]
            ELSE RulesAlone(r.self, e, k + 1)

\* the ledger message e ends with when it is processed alone, from an empty
\* ledger, the classifier answering label c (ok) or raising
LedgerAlone(e, ok, c) ==
    LET r == RulesAlone(NewLabelDecisions(Some(valid_labels), Some(GmailLabels)), e, 1)
    IN IF r.end # "completed" \/ ~ok \/ is_excluded(r.self, c)
       THEN r.self.decisions
       ELSE add_label(r.self, c, LlmSource).self.decisions

\* the classifier's answer for message m, when it was called
LlmAnswer(m) == log[CHOOSE i \in LlmCalls(m) : TRUE]

\* C30: the ledger of a message is empty when its first rule is evaluated,
\* and the ledger and final labels a message ends with are those it gets when
\* processed alone: a function of the message, the rule list, the label
\* catalog, the validator and the classifier's answer for it, whatever
\* messages came before it in the batch and however they ended.
C30_LedgerPerMessage ==
    /\ (pc = "rules" /\ ridx = 1) => decisions.decisions = <<>>
    /\ \A m \in 1..Len(outcomes) :
          LET alone == IF LlmCalls(m) = {}
                       THEN LedgerAlone(emails[m], FALSE, "VIP")
                       ELSE LedgerAlone(emails[m], LlmAnswer(m).res = "ok",
                                        LlmAnswer(m).label)
          IN /\ outcomes[m].ledger = alone
             /\ outcomes[m].status = "ok" =>
                   outcomes[m].final_labels = LabelsInState(alone, ADD)

\* the second message of a batch was processed successfully after a different
\* message that failed with a label in its ledger that the second never got
C30_Witness ==
    /\ Len(outcomes) = 2
    /\ emails[1] # emails[2]
    /\ outcomes[1].status = "failed"
    /\ outcomes[2].status = "ok"
    /\ outcomes[2].final_labels # <<>>
    /\ \E i \in 1..Len(outcomes[1].ledger) :
          \A j \in 1..Len(outcomes[2].ledger) :
              outcomes[2].ledger[j].label # outcomes[1].ledger[i].label

====
